---- MODULE Spec2Model ----
(***************************************************************************)
(* A model of the SAT-Solver repository: the iterative watched-literal     *)
(* solver DPLLFast (src/src/DPLL/DPLLFast.py), the flat clause store       *)
(* (src/src/cnf_flat.py) and the recursive solver DPLL                     *)
(* (src/src/DPLL/DPLL.py).                                                 *)
(*                                                                         *)
(* Python arrays are modelled with their own (0-based) indices: assign is  *)
(* a function on 0..num_vars, wpos1/wpos2 are functions on the clause      *)
(* indices 0..num_clauses-1 and hold absolute 0-based positions into lits. *)
(* lits and offsets are sequences read through LitAt and OffAt.            *)
(***************************************************************************)
EXTENDS Integers, Sequences, FiniteSets, TLC

VARIABLES
    clauses,      \* the list of clauses handed to the constructor
    num_vars,     \* the num_vars handed to the constructor
    lits,         \* DPLLFast.lits    (flat literal buffer)
    offsets,      \* DPLLFast.offsets (clause i is lits[offsets[i]:offsets[i+1]])
    assign,       \* DPLLFast.assign  (0 unassigned, +1 true, -1 false)
    trail,        \* DPLLFast.trail   (stack of assigned variables)
    trail_start,  \* DPLLFast.trail_start (propagation cursor)
    wpos1,        \* DPLLFast.wpos1
    wpos2,        \* DPLLFast.wpos2
    head,         \* DPLLFast.head + node_* : per head slot, the chain of watching clauses
    lit_count,    \* DPLLFast.lit_count
    all_lits,     \* DPLLFast._all_lits
    split_count,  \* DPLLFast.split_count
    solve_time,   \* DPLLFast.solve_time
    time_limit,   \* solve(time_limit=...)
    branch_mode,  \* solve(branch_mode=...)
    seed,         \* solve(seed=...)
    rng,          \* local rng of solve
    clock,        \* last value read from time.perf_counter() - start
    next_check,   \* local next_check of solve
    stack,        \* local decision stack of solve
    steps,        \* local steps of solve
    ok,           \* local ok of solve (result of the last propagation)
    pc,           \* position of the program
    ret,          \* the value returned by solve
    outcome,      \* which return statement of solve was taken
    run,          \* number of solve calls started on this object
    first,        \* what the first solve call returned, kept for comparison
    start_watch,  \* <<wpos1, wpos2, head>> as the current solve call found them
    assignment,   \* DPLL.assignment (1 True, -1 False, 0 None), index 0 unused
    watch_pos,    \* DPLL.watch_pos  (pairs of positions inside the clause)
    watchlist,    \* DPLL.watchlist  (literal -> list of clause indices)
    last_propagated, \* DPLL.last_propagated
    var_freq,     \* DPLL.var_freq
    rec_trail,    \* DPLL.trail     (stack of <<var, value>> pairs)
    frames,       \* the activations of DPLL._solve_rec, innermost last
    rv,           \* the value a finished activation of _solve_rec hands back
    decisions,    \* the literals solve pushed as new decision frames, in order
    gen_in,       \* the arguments (L, N, seed) given to the generators
    flat_out,     \* what random_3sat_flat(L, N, seed) produced
    fixed_out,    \* what FixedLength3SAT(L, N, seed) produced
    flat_again,   \* what a second random_3sat_flat(L, N, seed) produced
    trial,        \* run_3way_experiment: loop variable t
    num_trials,   \* run_3way_experiment: num_trials
    mode_idx,     \* run_3way_experiment: position in modes of the current mode
    par10_sums,   \* run_3way_experiment: par10_sums
    timeouts,     \* run_3way_experiment: timeouts
    charges,      \* one record per finished solve of the experiment
    inst,         \* (lits, offsets) as random_3sat_flat returned them in this trial
    perf,         \* run_3way_experiment: perf[...][mode]["par10_mean"] as <<sum, trials>>
    dimacs,       \* the lines of the DIMACS file handed to the loader
    cnf,          \* the CNF object the loader built: CNFList, numVars, numClauses
    prop_queue,   \* DPLL.propagate: local queue
    prop_lit,     \* DPLL.propagate: local false_lit, the literal dequeued last
    prop_watching, \* DPLL.propagate: the snapshot clauses_watching[:]
    prop_i,       \* DPLL.propagate: position of the for loop in the snapshot
    op            \* the method called last on the object, its argument and result

inputVars == <<clauses, num_vars>>
storeVars == <<lits, offsets, lit_count, all_lits>>
watchVars == <<wpos1, wpos2, head>>
trailVars == <<assign, trail, trail_start>>
callVars  == <<time_limit, branch_mode, seed>>
vars == <<clauses, num_vars, lits, offsets, assign, trail, trail_start, wpos1,
          wpos2, head, lit_count, all_lits, split_count, solve_time, time_limit,
          branch_mode, seed, rng, clock, next_check, stack, steps, ok, pc, ret,
          outcome, run, first, start_watch, assignment, watch_pos, watchlist,
          last_propagated, var_freq, rec_trail, frames, rv, decisions, gen_in,
          flat_out, fixed_out, flat_again, trial, num_trials, mode_idx,
          par10_sums, timeouts, charges, inst, perf, dimacs, cnf, prop_queue,
          prop_lit, prop_watching, prop_i, op>>
loadVars == <<dimacs, cnf>>
opsVars == <<prop_queue, prop_lit, prop_watching, prop_i, op>>
genVars == <<gen_in, flat_out, fixed_out, flat_again>>
expVars == <<trial, num_trials, mode_idx, par10_sums, timeouts, charges, inst, perf>>
recVars == <<assignment, watch_pos, watchlist, last_propagated, var_freq,
             rec_trail, frames, rv>>

\* Python's None, and a value that is present: an optional x is None or Some(x).
None == <<>>
Some(x) == <<x>>
Get(o) == o[1]

(***************************************************************************)
(* Bounds of the model and constants of the program.                       *)
(***************************************************************************)
MaxClauses == 2       \* clauses drawn from ClausePool per formula
MaxSeed == 1          \* integer seeds 0..MaxSeed
MaxTime == 3          \* clock readings 1..MaxTime (ticks)
MaxGenL == 2          \* generator: number of clauses L up to MaxGenL
MaxGenN == 4          \* generator: number of variables N up to MaxGenN
MaxLines == 3         \* DIMACS files of up to MaxLines lines
CheckInterval == 1024 \* DPLLFast.solve: next_check = 1024, next_check += 1024

Abs(l) == IF l < 0 THEN -l ELSE l

\* F applied to the value of e, which is computed once.
With(e, F(_)) == CHOOSE y \in {F(x) : x \in {e}} : TRUE

Max(a, b) == IF a > b THEN a ELSE b

(***************************************************************************)
(* cnf_flat.flatten_clauses                                                *)
(***************************************************************************)
RECURSIVE FlattenLoop(_, _, _, _)
FlattenLoop(cs, i, ls, offs) ==
    IF i > Len(cs) THEN [lits |-> ls, offsets |-> offs]
    ELSE FlattenLoop(cs, i + 1, ls \o cs[i], Append(offs, Len(ls) + Len(cs[i])))

flatten_clauses(cs) == FlattenLoop(cs, 1, <<>>, <<0>>)

LitAt(ls, k) == ls[k + 1]
OffAt(offs, i) == offs[i + 1]
NumClauses(offs) == Len(offs) - 1

(***************************************************************************)
(* DPLLFast.__init__ and DPLLFast._init_watches                            *)
(***************************************************************************)
\* Python indexing of an array of length n: i in -n..n-1, negative i wraps.
PyIndexOK(i, n) == -n <= i /\ i < n
PyIndex(i, n) == IF i < 0 THEN i + n ELSE i

HeadLen(N) == 2 * N + 1

_lit_index(lit, N) == lit + N

\* _add_watch_node: the new node is linked in front of the chain of its slot.
_add_watch_node(hd, lit, ci, N) ==
    LET slot == PyIndex(_lit_index(lit, N), HeadLen(N))
    IN  [hd EXCEPT ![slot] = <<ci>> \o @]

\* The literals _init_watches hands to _add_watch_node for clause ci.
InitWatched(ls, offs, ci) ==
    LET s == OffAt(offs, ci)
        e == OffAt(offs, ci + 1)
    IN  IF e - s <= 0 THEN <<>>
        ELSE IF e - s = 1 THEN <<LitAt(ls, s), LitAt(ls, s)>>
        ELSE <<LitAt(ls, s), LitAt(ls, s + 1)>>

RECURSIVE InitWatchesLoop(_, _, _, _, _)
InitWatchesLoop(ls, offs, N, ci, hd) ==
    IF ci >= NumClauses(offs) THEN hd
    ELSE LET w == InitWatched(ls, offs, ci)
             h1 == IF Len(w) = 0 THEN hd
                   ELSE _add_watch_node(_add_watch_node(hd, w[1], ci, N), w[2], ci, N)
         IN  InitWatchesLoop(ls, offs, N, ci + 1, h1)

init_wpos1(offs) == [ci \in 0..(NumClauses(offs) - 1) |-> OffAt(offs, ci)]

init_wpos2(offs) ==
    [ci \in 0..(NumClauses(offs) - 1) |->
        IF OffAt(offs, ci + 1) - OffAt(offs, ci) <= 1
        THEN OffAt(offs, ci) ELSE OffAt(offs, ci) + 1]

init_head(ls, offs, N) ==
    InitWatchesLoop(ls, offs, N, 0, [i \in 0..(HeadLen(N) - 1) |-> <<>>])

\* head[self._lit_index(lit)] raises IndexError outside Python's index range.
InitWatchesRaises(ls, offs, N) ==
    \E ci \in 0..(NumClauses(offs) - 1) :
        \E j \in DOMAIN InitWatched(ls, offs, ci) :
            ~PyIndexOK(_lit_index(InitWatched(ls, offs, ci)[j], N), HeadLen(N))

\* lit_count[L] += 1 for L in lits; _all_lits = its keys in insertion order.
init_lit_count(ls) ==
    [l \in {ls[k] : k \in DOMAIN ls} |-> Cardinality({k \in DOMAIN ls : ls[k] = l})]

init_all_lits(ls) ==
    LET firstAt(k) == \A j \in 1..(k - 1) : ls[j] # ls[k]
        idx == SelectSeq([k \in DOMAIN ls |-> k], firstAt)
    IN  [i \in DOMAIN idx |-> ls[idx[i]]]

fresh_assign(N) == [v \in 0..N |-> 0]

(***************************************************************************)
(* DPLLFast._assign_lit and DPLLFast._undo_to                              *)
(***************************************************************************)
\* Returns the truth of "return value" together with the updated fields.
\* An assign that sets the value and leaves the trail as it is.
_assign_lit_NoPush(a, tr, lit) ==
    LET v == Abs(lit)
        want == IF lit > 0 THEN 1 ELSE -1
        cur == a[v]
    IN  IF cur # 0 THEN [ok |-> cur = want, assign |-> a, trail |-> tr]
        ELSE [ok |-> TRUE, assign |-> [a EXCEPT ![v] = want], trail |-> tr]

_assign_lit(a, tr, lit) ==
    LET v == Abs(lit)
        want == IF lit > 0 THEN 1 ELSE -1
        cur == a[v]
    IN  IF cur # 0 THEN [ok |-> cur = want, assign |-> a, trail |-> tr]
        ELSE [ok |-> TRUE, assign |-> [a EXCEPT ![v] = want], trail |-> Append(tr, v)]

\* An undo that clears the value of every variable, popped or not.
_undo_to_ClearsAll(a, tr, ts, mark) ==
    LET keep == IF Len(tr) > mark THEN mark ELSE Len(tr)
    IN  [assign |-> [v \in DOMAIN a |-> 0],
         trail |-> SubSeq(tr, 1, keep),
         trail_start |-> IF ts > mark THEN mark ELSE ts]

\* An undo that shortens the trail and leaves the values as they are.
_undo_to_KeepsValues(a, tr, ts, mark) ==
    LET keep == IF Len(tr) > mark THEN mark ELSE Len(tr)
    IN  [assign |-> a,
         trail |-> SubSeq(tr, 1, keep),
         trail_start |-> IF ts > mark THEN mark ELSE ts]

_undo_to(a, tr, ts, mark) ==
    LET keep == IF Len(tr) > mark THEN mark ELSE Len(tr)
        popped == {tr[i] : i \in (keep + 1)..Len(tr)}
    IN  [assign |-> [v \in DOMAIN a |-> IF v \in popped THEN 0 ELSE a[v]],
         trail |-> SubSeq(tr, 1, keep),
         trail_start |-> IF ts > mark THEN mark ELSE ts]


(***************************************************************************)
(* propagate_watched (src/dpll_cy/core.pyx is not part of the sources):    *)
(* the propagation engine as the specification describes it (4.3, 4.4).    *)
(* ws is the record [assign, trail, wpos1, wpos2, head] being updated.     *)
(***************************************************************************)
value(a, lit) ==
    IF a[Abs(lit)] = 0 THEN "Unassigned"
    ELSE IF (lit > 0 /\ a[Abs(lit)] = 1) \/ (lit < 0 /\ a[Abs(lit)] = -1) THEN "True"
    ELSE "False"

WatchSlot(lit) == PyIndex(_lit_index(lit, num_vars), HeadLen(num_vars))

\* seq without its first occurrence of c
RemoveOne(seq, c) ==
    IF \E i \in DOMAIN seq : seq[i] = c
    THEN LET i == CHOOSE i \in DOMAIN seq :
                      seq[i] = c /\ \A j \in 1..(i - 1) : seq[j] # c
         IN  SubSeq(seq, 1, i - 1) \o SubSeq(seq, i + 1, Len(seq))
    ELSE seq

\* 4.4 step 1: the literal made false by the assignment of variable v
FalseLitOf(a, v) == IF a[v] = 1 THEN -v ELSE v

\* 4.4 step 2c: first position k of clause ci, other than the watched ones,
\* whose literal is not false; -1 when there is none
FindReplacement(ws, ci) ==
    LET cand == {k \in OffAt(offsets, ci)..(OffAt(offsets, ci + 1) - 1) :
                    /\ k # ws.wpos1[ci]
                    /\ k # ws.wpos2[ci]
                    /\ value(ws.assign, LitAt(lits, k)) # "False"}
    IN  IF cand = {} THEN -1 ELSE CHOOSE k \in cand : \A j \in cand : k <= j

\* 4.4 steps 2a-2e for one clause ci of the snapshot of watchers(f)
VisitClause(ws, f, ci) ==
    LET l1 == LitAt(lits, ws.wpos1[ci])
        l2 == LitAt(lits, ws.wpos2[ci])
        onW1 == l1 = f
        other == IF onW1 THEN l2 ELSE l1
        k == FindReplacement(ws, ci)
    IN  IF l1 # f /\ l2 # f
        THEN [ws |-> ws, status |-> "ok", enq |-> <<>>]
        ELSE IF value(ws.assign, other) = "True"
        THEN [ws |-> ws, status |-> "ok", enq |-> <<>>]
        ELSE IF k # -1
        THEN [ws |-> [ws EXCEPT
                        !.wpos1 = IF onW1 THEN [@ EXCEPT ![ci] = k] ELSE @,
                        !.wpos2 = IF onW1 THEN @ ELSE [@ EXCEPT ![ci] = k],
                        !.head = [@ EXCEPT
                                    ![WatchSlot(f)] = RemoveOne(@, ci),
                                    ![WatchSlot(LitAt(lits, k))] = Append(@, ci)]],
              status |-> "ok", enq |-> <<>>]
        ELSE IF value(ws.assign, other) = "False"
        THEN [ws |-> ws, status |-> "conflict", enq |-> <<>>]
        ELSE LET r == _assign_lit(ws.assign, ws.trail, other)
             IN  IF ~r.ok
                 THEN [ws |-> ws, status |-> "conflict", enq |-> <<>>]
                 ELSE [ws |-> [ws EXCEPT !.assign = r.assign, !.trail = r.trail],
                       status |-> "ok", enq |-> <<-other>>]

RECURSIVE VisitSnapshot(_, _, _, _, _)
VisitSnapshot(ws, f, snap, i, queue) ==
    IF i > Len(snap) THEN [ws |-> ws, status |-> "ok", queue |-> queue]
    ELSE With(VisitClause(ws, f, snap[i]),
              LAMBDA r :
                  IF r.status = "conflict"
                  THEN [ws |-> r.ws, status |-> "conflict", queue |-> queue]
                  ELSE VisitSnapshot(r.ws, f, snap, i + 1, queue \o r.enq))

RECURSIVE DrainQueue(_, _)
DrainQueue(ws, queue) ==
    IF queue = <<>> THEN [ws |-> ws, ok |-> TRUE]
    ELSE With(VisitSnapshot(ws, Head(queue), ws.head[WatchSlot(Head(queue))], 1,
                            Tail(queue)),
              LAMBDA r :
                  IF r.status = "conflict" THEN [ws |-> r.ws, ok |-> FALSE]
                  ELSE DrainQueue(r.ws, r.queue))

\* returns (ok, new_ts) and the arrays it updated in place
propagate_watched(ws, ts) ==
    LET queue == [i \in 1..(Len(ws.trail) - ts) |-> FalseLitOf(ws.assign, ws.trail[ts + i])]
    IN  With(DrainQueue(ws, queue),
             LAMBDA r : [ok |-> r.ok, new_ts |-> Len(ws.trail), ws |-> r.ws])


(***************************************************************************)
(* Branching heuristics of DPLLFast                                        *)
(***************************************************************************)
\* A scan that lets a later literal of equal count replace the best so far.
RECURSIVE StaticScan_LastWins(_, _, _, _)
StaticScan_LastWins(a, i, best, best_lit) ==
    IF i > Len(all_lits) THEN best_lit
    ELSE LET lit == all_lits[i]
             v == IF lit > 0 THEN lit ELSE -lit
         IN  IF a[v] # 0 THEN StaticScan_LastWins(a, i + 1, best, best_lit)
             ELSE IF lit_count[lit] >= best
                  THEN StaticScan_LastWins(a, i + 1, lit_count[lit], Some(lit))
                  ELSE StaticScan_LastWins(a, i + 1, best, best_lit)

RECURSIVE StaticScan(_, _, _, _)
StaticScan(a, i, best, best_lit) ==
    IF i > Len(all_lits) THEN best_lit
    ELSE LET lit == all_lits[i]
             v == IF lit > 0 THEN lit ELSE -lit
         IN  IF a[v] # 0 THEN StaticScan(a, i + 1, best, best_lit)
             ELSE IF lit_count[lit] > best
                  THEN StaticScan(a, i + 1, lit_count[lit], Some(lit))
                  ELSE StaticScan(a, i + 1, best, best_lit)

_choose_branch_lit_static(a) == StaticScan(a, 1, -1, None)

\* The inner loop of _choose_branch_lit_2clause over positions k..e-1 of one
\* clause: the unassigned literals collected and whether a true one stopped it.
RECURSIVE ClauseScan(_, _, _, _)
ClauseScan(a, k, e, unassigned) ==
    IF k >= e THEN [unassigned |-> unassigned, satisfied |-> FALSE]
    ELSE LET lit == LitAt(lits, k)
             v == IF lit > 0 THEN lit ELSE -lit
             av == a[v]
         IN  IF av = 0
             THEN IF Len(unassigned) + 1 > 2
                  THEN [unassigned |-> Append(unassigned, lit), satisfied |-> FALSE]
                  ELSE ClauseScan(a, k + 1, e, Append(unassigned, lit))
             ELSE IF (lit > 0 /\ av = 1) \/ (lit < 0 /\ av = -1)
                  THEN [unassigned |-> unassigned, satisfied |-> TRUE]
                  ELSE ClauseScan(a, k + 1, e, unassigned)

lit_count_get(lit) == IF lit \in DOMAIN lit_count THEN lit_count[lit] ELSE 0

\* A scoring loop that lets a later literal of equal score replace the best.
RECURSIVE ScoreScan_LastWins(_, _, _, _)
ScoreScan_LastWins(unassigned, i, best_score, best_lit) ==
    IF i > Len(unassigned) THEN [best_score |-> best_score, best_lit |-> best_lit]
    ELSE IF lit_count_get(unassigned[i]) >= best_score
         THEN ScoreScan_LastWins(unassigned, i + 1, lit_count_get(unassigned[i]),
                                 Some(unassigned[i]))
         ELSE ScoreScan_LastWins(unassigned, i + 1, best_score, best_lit)

RECURSIVE ScoreScan(_, _, _, _)
ScoreScan(unassigned, i, best_score, best_lit) ==
    IF i > Len(unassigned) THEN [best_score |-> best_score, best_lit |-> best_lit]
    ELSE IF lit_count_get(unassigned[i]) > best_score
         THEN ScoreScan(unassigned, i + 1, lit_count_get(unassigned[i]),
                        Some(unassigned[i]))
         ELSE ScoreScan(unassigned, i + 1, best_score, best_lit)

RECURSIVE TwoClauseScan(_, _, _, _)
TwoClauseScan(a, ci, best_score, best_lit) ==
    IF ci >= NumClauses(offsets) THEN best_lit
    ELSE LET r == ClauseScan(a, OffAt(offsets, ci), OffAt(offsets, ci + 1), <<>>)
         IN  IF r.satisfied \/ Len(r.unassigned) # 2
             THEN TwoClauseScan(a, ci + 1, best_score, best_lit)
             ELSE LET s == ScoreScan(r.unassigned, 1, best_score, best_lit)
                  IN  TwoClauseScan(a, ci + 1, s.best_score, s.best_lit)

_choose_branch_lit_2clause(a) == TwoClauseScan(a, 0, -1, None)

\* random.Random(seed): a generator whose draws are a function of the seed;
\* seed None seeds it from the operating system, so its draws are arbitrary.
\* The generator is None when seeded from the operating system, else Some(state).
RngInit(sd) == IF sd = None THEN None ELSE Some(Get(sd) % 8)
RngNext(g) == Some((5 * Get(g) + 3) % 8)
RngDraw(g) == Get(g) \div 2

\* A random choice over all the variables, assigned or not.
_choose_branch_lit_random_AnyVar(a, g) ==
    LET unassigned_vars == [v \in 1..num_vars |-> v]
        n == Len(unassigned_vars)
    IN  IF n = 0 THEN {[lit |-> None, rng |-> g]}
        ELSE IF g = None
        THEN {[lit |-> Some(s * unassigned_vars[i]), rng |-> g] :
                 i \in 1..n, s \in {1, -1}}
        ELSE LET v == unassigned_vars[(RngDraw(g) % n) + 1]
                 g1 == RngNext(g)
             IN  {[lit |-> Some(IF RngDraw(g1) % 2 = 0 THEN v ELSE -v),
                   rng |-> RngNext(g1)]}

\* The results _choose_branch_lit_random can give, with the generator after it.
_choose_branch_lit_random(a, g) ==
    LET unassigned_vars == SelectSeq([v \in 1..num_vars |-> v], LAMBDA v : a[v] = 0)
        n == Len(unassigned_vars)
    IN  IF n = 0 THEN {[lit |-> None, rng |-> g]}
        ELSE IF g = None
        THEN {[lit |-> Some(s * unassigned_vars[i]), rng |-> g] :
                 i \in 1..n, s \in {1, -1}}
        ELSE LET v == unassigned_vars[(RngDraw(g) % n) + 1]
                 g1 == RngNext(g)
             IN  {[lit |-> Some(IF RngDraw(g1) % 2 = 0 THEN v ELSE -v),
                   rng |-> RngNext(g1)]}

\* A dispatcher whose default branch also draws from the generator.
_choose_branch_lit_AllRandom(mode, a, g) ==
    IF mode = "2clause"
    THEN IF _choose_branch_lit_2clause(a) # None
         THEN {[lit |-> _choose_branch_lit_2clause(a), rng |-> g]}
         ELSE {[lit |-> _choose_branch_lit_static(a), rng |-> g]}
    ELSE _choose_branch_lit_random(a, g)

\* A heuristic whose scan never comes to an end: it hands nothing back.
_choose_branch_lit_NoReturn(mode, a, g) == {}

_choose_branch_lit(mode, a, g) ==
    IF mode = "random" THEN _choose_branch_lit_random(a, g)
    ELSE IF mode = "2clause"
    THEN IF _choose_branch_lit_2clause(a) # None
         THEN {[lit |-> _choose_branch_lit_2clause(a), rng |-> g]}
         ELSE {[lit |-> _choose_branch_lit_static(a), rng |-> g]}
    ELSE {[lit |-> _choose_branch_lit_static(a), rng |-> g]}


(***************************************************************************)
(* DPLLFast.solve: the backtrack loop and the returned model               *)
(***************************************************************************)
\* A backtrack loop that drops every frame without trying its opposite branch.
RECURSIVE BacktrackLoop_NoFlip(_, _, _, _)
BacktrackLoop_NoFlip(stk, a, tr, ts) ==
    IF stk = <<>>
    THEN [found |-> FALSE, stack |-> stk, assign |-> a, trail |-> tr, trail_start |-> ts]
    ELSE LET top == stk[Len(stk)]
             u == _undo_to(a, tr, ts, top.mark)
         IN  BacktrackLoop_NoFlip(SubSeq(stk, 1, Len(stk) - 1), u.assign, u.trail,
                                  u.trail_start)

\* while stack: pop, undo, re-push flipped and assign the opposite literal;
\* found is FALSE when the loop ends without break (the while's else branch).
RECURSIVE BacktrackLoop(_, _, _, _)
BacktrackLoop(stk, a, tr, ts) ==
    IF stk = <<>>
    THEN [found |-> FALSE, stack |-> stk, assign |-> a, trail |-> tr, trail_start |-> ts]
    ELSE LET top == stk[Len(stk)]
             rest == SubSeq(stk, 1, Len(stk) - 1)
             stk2 == Append(rest, [top EXCEPT !.flipped = TRUE])
         IN  With(_undo_to(a, tr, ts, top.mark),
                  LAMBDA u :
                      IF ~top.flipped
                      THEN With(_assign_lit(u.assign, u.trail, -top.branch_lit),
                                LAMBDA r :
                                    IF r.ok
                                    THEN [found |-> TRUE, stack |-> stk2,
                                          assign |-> r.assign, trail |-> r.trail,
                                          trail_start |-> u.trail_start]
                                    ELSE BacktrackLoop(stk2, r.assign, r.trail,
                                                       u.trail_start))
                      ELSE BacktrackLoop(rest, u.assign, u.trail, u.trail_start))

\* A model built over range(1, num_vars): the last variable is left out.
ModelOf_ShortRange(a) == [v \in 1..(num_vars - 1) |-> a[v] = 1]

\* {v: (self.assign[v] == 1) for v in range(1, self.num_vars + 1)}
ModelOf(a) == [v \in 1..num_vars |-> a[v] = 1]

\* all_assigned: no v in 1..num_vars with assign[v] == 0
AllAssigned(a) == {v \in 1..num_vars : a[v] = 0} = {}

\* A comparison that treats a non-positive limit as no limit.
Exceeds_PositiveOnly(elapsed, limit) == Get(limit) > 0 /\ elapsed > Get(limit)

\* A comparison that already fires when the elapsed time equals the limit.
Exceeds_AtLeast(elapsed, limit) == elapsed >= Get(limit)

\* (time.perf_counter() - start) > time_limit
Exceeds(elapsed, limit) == elapsed > Get(limit)

\* A timeout return that hands back a tag of its own.
TimeoutReturn_Tagged == <<"timeout">>

\* The value of the return statement after a time check that failed (line 219)
TimeoutReturn == None

\* The value of the return statement when the decision stack is exhausted (line 247)
UnsatReturn == None

\* What time.perf_counter() - start can read now: the clock does not run
\* backwards and some time has passed since start.  With no time limit the
\* reading decides nothing and is not resolved further.
ClockReadings ==
    IF time_limit = None THEN {Max(clock, 1)} ELSE Max(clock, 1)..MaxTime

\* A time check made at every iteration.
CheckDue_EveryIteration == time_limit # None

CheckDue == time_limit # None /\ steps + 1 >= next_check

(***************************************************************************)
(* Inputs                                                                  *)
(***************************************************************************)
Modes == {"static", "random", "2clause"}
Seeds == {None} \cup {Some(s) : s \in 0..MaxSeed}

ClausePool ==
    { <<>>, <<1>>, <<-1>>, <<1, 2>>, <<-1, 2>>, <<-2, -1>>, <<1, -1>>,
      <<2, 2, -1>>, <<1, 2, 3>>, <<-1, -2, 3>>, <<-3, 1, -2>>, <<-3, 2>> }

Formulas == UNION {[1..m -> ClausePool] : m \in 0..MaxClauses}

\* The scenarios S1, S2, S3 of the specification and the four 2-clauses over 1, 2.
S1 == << <<1, 2>>, <<-1, 3>>, <<-2, -3>> >>
S2 == << <<1>>, <<-1>> >>
S3 == << <<1, 2, 3>>, <<1, 2, -3>>, <<1, -2, 3>>, <<1, -2, -3>>,
         <<-1, 2, 3>>, <<-1, 2, -3>>, <<-1, -2, 3>>, <<-1, -2, -3>> >>
U2 == << <<1, 2>>, <<1, -2>>, <<-1, 2>>, <<-1, -2>> >>
Scenarios == {S1, S2, S3, U2}

VarsOf(cs) == UNION {{Abs(cs[i][j]) : j \in DOMAIN cs[i]} : i \in DOMAIN cs}
NumVarsFor(cs) == {n \in 1..3 : \A v \in VarsOf(cs) : v <= n}

InitArrays == lits = <<>> /\ offsets = <<0>>

InitSolver ==
    /\ lit_count = <<>> /\ all_lits = <<>>
    /\ assign = <<>> /\ trail = <<>> /\ trail_start = 0
    /\ wpos1 = <<>> /\ wpos2 = <<>> /\ head = <<>>
    /\ split_count = 0 /\ solve_time = 0
    /\ rng = None /\ clock = 0 /\ next_check = 0 /\ stack = <<>> /\ steps = 0
    /\ ok = TRUE /\ ret = None /\ outcome = "none"
    /\ run = 0 /\ first = None /\ start_watch = None
    /\ assignment = <<>> /\ watch_pos = <<>> /\ watchlist = <<>>
    /\ last_propagated = 0 /\ var_freq = <<>> /\ rec_trail = <<>>
    /\ frames = <<>> /\ rv = None
    /\ decisions = <<>>

\* No generator has been called.
InitNoGen ==
    /\ gen_in = None /\ flat_out = None /\ fixed_out = None /\ flat_again = None

\* No experiment is running.
InitNoExp ==
    /\ trial = 0 /\ num_trials = 0 /\ mode_idx = 0
    /\ par10_sums = <<>> /\ timeouts = <<>> /\ charges = <<>>
    /\ inst = None /\ perf = None

\* No file has been given to the loader.
InitNoLoad == dimacs = None /\ cnf = None

\* No method has been called on the object and no propagation is under way.
InitNoOps ==
    /\ prop_queue = <<>> /\ prop_lit = 0 /\ prop_watching = <<>> /\ prop_i = 0
    /\ op = None

InitObject ==
    InitArrays /\ InitSolver /\ pc = "new" /\ InitNoGen /\ InitNoExp /\ InitNoLoad
    /\ InitNoOps

Init ==
    /\ clauses \in Formulas \cup Scenarios
    /\ num_vars \in NumVarsFor(clauses)
    /\ time_limit = None
    /\ branch_mode \in Modes
    /\ seed = None
    /\ InitObject

(***************************************************************************)
(* Actions                                                                 *)
(***************************************************************************)
\* flatten_clauses(clauses), then DPLLFast(lits, offsets, num_vars)
Construct ==
    /\ pc = "new"
    /\ LET f == flatten_clauses(clauses)
       IN  IF InitWatchesRaises(f.lits, f.offsets, num_vars)
           THEN /\ pc' = "error"
                /\ UNCHANGED <<storeVars, watchVars, trailVars>>
           ELSE /\ pc' = "ready"
                /\ lits' = f.lits
                /\ offsets' = f.offsets
                /\ assign' = fresh_assign(num_vars)
                /\ trail' = <<>>
                /\ trail_start' = 0
                /\ wpos1' = init_wpos1(f.offsets)
                /\ wpos2' = init_wpos2(f.offsets)
                /\ head' = init_head(f.lits, f.offsets, num_vars)
                /\ lit_count' = init_lit_count(f.lits)
                /\ all_lits' = init_all_lits(f.lits)
    /\ split_count' = 0
    /\ solve_time' = 0
    /\ UNCHANGED <<opsVars, loadVars, decisions, genVars, expVars, inputVars, callVars, rng, clock, next_check, stack, steps, ok,
                   ret, outcome, run, first, start_watch, recVars>>

\* A per-call reset that keeps the split count of the call before.
SolveReset_KeepCount ==
    /\ split_count' = split_count
    /\ decisions' = <<>>
    /\ solve_time' = 0
    /\ assign' = fresh_assign(num_vars)
    /\ trail' = <<>>
    /\ trail_start' = 0
    /\ rng' = RngInit(seed')
    /\ clock' = 0
    /\ next_check' = CheckInterval
    /\ stack' = <<>>
    /\ steps' = 0
    /\ ok' = TRUE
    /\ ret' = None
    /\ outcome' = "none"
    /\ pc' = "loop"
    /\ run' = run + 1
    /\ start_watch' = <<wpos1, wpos2, head>>
    /\ UNCHANGED <<opsVars, loadVars, genVars, expVars, inputVars, storeVars, watchVars, recVars>>

\* A per-call reset that forgets to clear the assignment array.
SolveReset_KeepAssign ==
    /\ split_count' = 0
    /\ decisions' = <<>>
    /\ solve_time' = 0
    /\ assign' = assign
    /\ trail' = <<>>
    /\ trail_start' = 0
    /\ rng' = RngInit(seed')
    /\ clock' = 0
    /\ next_check' = CheckInterval
    /\ stack' = <<>>
    /\ steps' = 0
    /\ ok' = TRUE
    /\ ret' = None
    /\ outcome' = "none"
    /\ pc' = "loop"
    /\ run' = run + 1
    /\ start_watch' = <<wpos1, wpos2, head>>
    /\ UNCHANGED <<opsVars, loadVars, genVars, expVars, inputVars, storeVars, watchVars, recVars>>

\* solve, lines 199-209: the per-call reset
SolveReset ==
    /\ split_count' = 0
    /\ decisions' = <<>>
    /\ solve_time' = 0
    /\ assign' = fresh_assign(num_vars)
    /\ trail' = <<>>
    /\ trail_start' = 0
    /\ rng' = RngInit(seed')
    /\ clock' = 0
    /\ next_check' = CheckInterval
    /\ stack' = <<>>
    /\ steps' = 0
    /\ ok' = TRUE
    /\ ret' = None
    /\ outcome' = "none"
    /\ pc' = "loop"
    /\ run' = run + 1
    /\ start_watch' = <<wpos1, wpos2, head>>
    /\ UNCHANGED <<opsVars, loadVars, genVars, expVars, inputVars, storeVars, watchVars, recVars>>

SolveCall ==
    /\ pc = "ready"
    /\ UNCHANGED <<callVars, first>>
    /\ SolveReset

\* steps += 1 and the amortized time check: the limit is found exceeded
IterTimeout ==
    /\ pc = "loop"
    /\ CheckDue
    /\ \E t1 \in ClockReadings :
          /\ Exceeds(t1, time_limit)
          /\ \E t2 \in t1..MaxTime :
                /\ solve_time' = t2
                /\ clock' = t2
    /\ steps' = steps + 1
    /\ next_check' = next_check + CheckInterval
    /\ ret' = TimeoutReturn
    /\ outcome' = "timeout"
    /\ pc' = "done"
    /\ UNCHANGED <<opsVars, loadVars, decisions, genVars, expVars, inputVars, storeVars, watchVars, trailVars, callVars,
                   split_count, rng, stack, ok, run, first, start_watch, recVars>>

\* steps += 1, the time check passed or not due, then propagate_watched
IterPropagate ==
    /\ pc = "loop"
    /\ steps' = steps + 1
    /\ IF CheckDue
       THEN /\ next_check' = next_check + CheckInterval
            /\ \E t1 \in ClockReadings :
                  /\ ~Exceeds(t1, time_limit)
                  /\ clock' = t1
       ELSE UNCHANGED <<next_check, clock>>
    /\ \E r \in {propagate_watched(
                    [assign |-> assign, trail |-> trail, wpos1 |-> wpos1,
                     wpos2 |-> wpos2, head |-> head], trail_start)} :
           /\ ok' = r.ok
           /\ trail_start' = r.new_ts
           /\ assign' = r.ws.assign
           /\ trail' = r.ws.trail
           /\ wpos1' = r.ws.wpos1
           /\ wpos2' = r.ws.wpos2
           /\ head' = r.ws.head
    /\ pc' = "post"
    /\ UNCHANGED <<opsVars, loadVars, decisions, genVars, expVars, inputVars, storeVars, callVars, split_count, solve_time, rng,
                   stack, ret, outcome, run, first, start_watch, recVars>>

\* if not ok: the backtrack loop ends with break, then continue
IterBacktrack ==
    /\ pc = "post"
    /\ ~ok
    /\ \E b \in {BacktrackLoop(stack, assign, trail, trail_start)} :
           /\ b.found
           /\ stack' = b.stack
           /\ assign' = b.assign
           /\ trail' = b.trail
           /\ trail_start' = b.trail_start
    /\ pc' = "loop"
    /\ UNCHANGED <<opsVars, loadVars, decisions, genVars, expVars, inputVars, storeVars, watchVars, callVars, split_count,
                   solve_time, rng, clock, next_check, steps, ok, ret, outcome,
                   run, first, start_watch, recVars>>

\* if not ok: the backtrack loop empties the stack: UNSAT
IterUnsat ==
    /\ pc = "post"
    /\ ~ok
    /\ \E b \in {BacktrackLoop(stack, assign, trail, trail_start)} :
           /\ ~b.found
           /\ stack' = b.stack
           /\ assign' = b.assign
           /\ trail' = b.trail
           /\ trail_start' = b.trail_start
    /\ \E t \in ClockReadings : solve_time' = t /\ clock' = t
    /\ ret' = UnsatReturn
    /\ outcome' = "unsat"
    /\ pc' = "done"
    /\ UNCHANGED <<opsVars, loadVars, decisions, genVars, expVars, inputVars, storeVars, watchVars, callVars, split_count, rng,
                   next_check, steps, ok, run, first, start_watch, recVars>>

\* ok and all variables assigned: SAT
IterSatAll ==
    /\ pc = "post"
    /\ ok
    /\ AllAssigned(assign)
    /\ \E t \in ClockReadings : solve_time' = t /\ clock' = t
    /\ ret' = ModelOf(assign)
    /\ outcome' = "sat"
    /\ pc' = "done"
    /\ UNCHANGED <<opsVars, loadVars, decisions, genVars, expVars, inputVars, storeVars, watchVars, trailVars, callVars,
                   split_count, rng, next_check, stack, steps, ok, run, first, start_watch, recVars>>

\* ok, some variable unassigned, the heuristic returns None: treated as SAT
IterSatNoBranch ==
    /\ pc = "post"
    /\ ok
    /\ ~AllAssigned(assign)
    /\ \E c \in _choose_branch_lit(branch_mode, assign, rng) :
          /\ c.lit = None
          /\ rng' = c.rng
    /\ \E t \in ClockReadings : solve_time' = t /\ clock' = t
    /\ ret' = ModelOf(assign)
    /\ outcome' = "sat"
    /\ pc' = "done"
    /\ UNCHANGED <<opsVars, loadVars, decisions, genVars, expVars, inputVars, storeVars, watchVars, trailVars, callVars,
                   split_count, next_check, stack, steps, ok, run, first, start_watch, recVars>>

\* ok, some variable unassigned: push a new frame and assign the branch literal
\* A decision whose frame records the trail length after the assign.
IterDecide_MarkAfterAssign ==
    /\ pc = "post"
    /\ ok
    /\ ~AllAssigned(assign)
    /\ \E c \in _choose_branch_lit(branch_mode, assign, rng) :
          /\ c.lit # None
          /\ rng' = c.rng
          /\ split_count' = split_count + 1
          /\ decisions' = Append(decisions, Get(c.lit))
          /\ LET r == _assign_lit(assign, trail, Get(c.lit))
             IN  /\ assign' = r.assign /\ trail' = r.trail
                 /\ stack' = Append(stack, [branch_lit |-> Get(c.lit),
                                            mark |-> Len(r.trail),
                                            flipped |-> FALSE])
    /\ pc' = "loop"
    /\ UNCHANGED <<opsVars, loadVars, genVars, expVars, inputVars, storeVars, watchVars, callVars, trail_start,
                   solve_time, clock, next_check, steps, ok, ret, outcome, run,
                   first, start_watch, recVars>>

IterDecide ==
    /\ pc = "post"
    /\ ok
    /\ ~AllAssigned(assign)
    /\ \E c \in _choose_branch_lit(branch_mode, assign, rng) :
          /\ c.lit # None
          /\ rng' = c.rng
          /\ split_count' = split_count + 1
          /\ decisions' = Append(decisions, Get(c.lit))
          /\ stack' = Append(stack, [branch_lit |-> Get(c.lit), mark |-> Len(trail),
                                     flipped |-> FALSE])
          /\ LET r == _assign_lit(assign, trail, Get(c.lit))
             IN  assign' = r.assign /\ trail' = r.trail
    /\ pc' = "loop"
    /\ UNCHANGED <<opsVars, loadVars, genVars, expVars, inputVars, storeVars, watchVars, callVars, trail_start,
                   solve_time, clock, next_check, steps, ok, ret, outcome, run,
                   first, start_watch, recVars>>

Next ==
    \/ Construct
    \/ SolveCall
    \/ IterPropagate
    \/ IterBacktrack
    \/ IterUnsat
    \/ IterSatAll
    \/ IterSatNoBranch
    \/ IterDecide

Spec == Init /\ [][Next]_vars


(***************************************************************************)
(* Two solve calls in a row on one solver object                           *)
(***************************************************************************)
\* Formulas solved twice: clauses whose watches move during a search.
TwicePool ==
    { <<1>>, <<-1, 2>>, <<2, 2, -1>>, <<1, 2, 3>>, <<-1, -2, 3>>, <<-3, 1, -2>>,
      <<-3, 2>> }

TwiceFormulas == UNION {[1..m -> TwicePool] : m \in 0..MaxClauses}

\* Formulas on which an operating-system seeded random search is run twice.
ShortFormulas == UNION {[1..m -> TwicePool] : m \in 0..(MaxClauses - 1)}

InitTwice ==
    /\ clauses \in TwiceFormulas \cup Scenarios
    /\ num_vars \in NumVarsFor(clauses)
    /\ time_limit = None
    /\ branch_mode \in Modes
    /\ seed \in Seeds
    /\ (branch_mode = "random" /\ seed = None) => clauses \in ShortFormulas
    /\ InitObject

\* The caller keeps what the first call returned and calls solve again with
\* the same arguments.
SolveAgain ==
    /\ pc = "done"
    /\ run = 1
    /\ first' = Some([ret |-> ret, outcome |-> outcome, split_count |-> split_count,
                      watch |-> <<wpos1, wpos2, head>>])
    /\ UNCHANGED callVars
    /\ SolveReset

NextTwice ==
    \/ Next
    \/ SolveAgain

SpecTwice == InitTwice /\ [][NextTwice]_vars

(***************************************************************************)
(* solve with a time limit                                                 *)
(***************************************************************************)
\* time_limit: absent, negative, zero, or a positive number of ticks.
TimeLimits == {None} \cup {Some(t) : t \in (-1)..(MaxTime - 1)}

\* Formulas decided in a few iterations, with and without a model.
TimeFormulas == Scenarios \cup { << <<1>> >>, << <<1, 2>>, <<-1, 2>> >> }

\* An unsatisfiable formula over eleven variables that keeps the static
\* heuristic busy: the literals 1..9 occur most often and are decided first,
\* and under each of their 2^9 assignments the four clauses over 10 and 11
\* fail again, so the search takes more than CheckInterval main-loop iterations.
HardFormula ==
    << <<1, 2, 3, 4, 5, 6, 7, 8, 9>>, <<1, 2, 3, 4, 5, 6, 7, 8, 9>>,
       <<1, 2, 3, 4, 5, 6, 7, 8, 9>>,
       <<10, 11>>, <<10, -11>>, <<-10, 11>>, <<-10, -11>> >>

\* The same over twelve variables: its search goes past the second time
\* check, at iteration 2 * CheckInterval.
HarderFormula ==
    << <<1, 2, 3, 4, 5, 6, 7, 8, 9, 10>>, <<1, 2, 3, 4, 5, 6, 7, 8, 9, 10>>,
       <<1, 2, 3, 4, 5, 6, 7, 8, 9, 10>>,
       <<11, 12>>, <<11, -12>>, <<-11, 12>>, <<-11, -12>> >>

\* Either a formula decided long before the first time check, or HardFormula,
\* whose search reaches the time check of iteration CheckInterval, or
\* HarderFormula, whose search reaches the one after it.
InitTime ==
    /\ \/ /\ clauses \in TimeFormulas
          /\ num_vars \in NumVarsFor(clauses)
          /\ branch_mode \in Modes
       \/ /\ clauses = HardFormula
          /\ num_vars = 11
          /\ branch_mode = "static"
       \/ /\ clauses = HarderFormula
          /\ num_vars = 12
          /\ branch_mode = "static"
    /\ seed = Some(0)
    /\ time_limit \in TimeLimits
    /\ InitObject

NextTime ==
    \/ Next
    \/ IterTimeout

SpecTime == InitTime /\ [][NextTime]_vars

(***************************************************************************)
(* DPLL.__init__ and DPLL._init_watches (the recursive solver)             *)
(***************************************************************************)
\* The positions of the literals of a clause list: <<clause, position>>.
LitPositions(cs) == UNION {{<<i, j>> : j \in DOMAIN cs[i]} : i \in DOMAIN cs}

\* self.var_freq[abs(lit)] += 1 on a list of length num_vars + 1
VarFreqRaises(cs, N) ==
    \E p \in LitPositions(cs) : ~PyIndexOK(Abs(cs[p[1]][p[2]]), N + 1)

init_var_freq(cs, N) ==
    [v \in 0..N |-> Cardinality({p \in LitPositions(cs) : Abs(cs[p[1]][p[2]]) = v})]

\* watch_pos holds 0-based positions inside the clause.
init_watch_pos(cs) ==
    [ci \in 0..(Len(cs) - 1) |-> IF Len(cs[ci + 1]) <= 1 THEN <<0, 0>> ELSE <<0, 1>>]

\* The keys a watchlist can have: the literals over 0..N (abs(lit) <= N).
WatchKeys(N) == (-N)..N

RECURSIVE RecInitWatchesLoop(_, _, _)
RecInitWatchesLoop(cs, ci, wl) ==
    IF ci >= Len(cs) THEN wl
    ELSE LET clause == cs[ci + 1]
         IN  IF Len(clause) = 0 THEN RecInitWatchesLoop(cs, ci + 1, wl)
             ELSE IF Len(clause) = 1
             THEN RecInitWatchesLoop(cs, ci + 1,
                      [wl EXCEPT ![clause[1]] = Append(@, ci)])
             ELSE RecInitWatchesLoop(cs, ci + 1,
                      [[wl EXCEPT ![clause[1]] = Append(@, ci)]
                           EXCEPT ![clause[2]] = Append(@, ci)])

\* watchlist is a defaultdict(list): a key never appended to reads as [].
init_watchlist(cs, N) == RecInitWatchesLoop(cs, 0, [l \in WatchKeys(N) |-> <<>>])

\* DPLL(clauses=clauses, num_vars=num_vars)
RecConstruct ==
    /\ pc = "new"
    /\ IF VarFreqRaises(clauses, num_vars)
       THEN /\ pc' = "error"
            /\ UNCHANGED <<assignment, rec_trail, var_freq, watch_pos, watchlist>>
       ELSE /\ pc' = "rec_ready"
            /\ assignment' = fresh_assign(num_vars)
            /\ rec_trail' = <<>>
            /\ var_freq' = init_var_freq(clauses, num_vars)
            /\ watch_pos' = init_watch_pos(clauses)
            /\ watchlist' = init_watchlist(clauses, num_vars)
    /\ last_propagated' = 0
    /\ split_count' = 0
    /\ solve_time' = 0
    /\ UNCHANGED <<opsVars, loadVars, decisions, genVars, expVars, inputVars, storeVars, watchVars, trailVars, callVars, rng, clock,
                   next_check, stack, steps, ok, ret, outcome, run, first,
                   start_watch, frames, rv>>

(***************************************************************************)
(* DPLL.assign_literal, DPLL.undo_to, DPLL.propagate                       *)
(* rs is the record [assignment, trail, watch_pos, watchlist,              *)
(* last_propagated, raised] of the fields being updated; raised is set     *)
(* when a statement raised an exception.  Clause ci is clauses[ci + 1] and *)
(* position k of a clause is its element k + 1.                            *)
(***************************************************************************)
RecState ==
    [assignment |-> assignment, trail |-> rec_trail, watch_pos |-> watch_pos,
     watchlist |-> watchlist, last_propagated |-> last_propagated,
     raised |-> FALSE]

\* An assign that pushes the variable again when it already holds the value.
assign_literal_PushesAgain(rs, lit) ==
    LET var == Abs(lit)
        val == lit > 0
        current == rs.assignment[var]
    IN  IF current # 0 /\ (current = 1) # val
        THEN [ok |-> FALSE, rs |-> rs]
        ELSE [ok |-> TRUE,
              rs |-> [rs EXCEPT !.assignment[var] = IF val THEN 1 ELSE -1,
                                !.trail = Append(@, <<var, val>>)]]

assign_literal(rs, lit) ==
    LET var == Abs(lit)
        val == lit > 0
        current == rs.assignment[var]
    IN  IF current # 0
        THEN [ok |-> (current = 1) = val, rs |-> rs]
        ELSE [ok |-> TRUE,
              rs |-> [rs EXCEPT !.assignment[var] = IF val THEN 1 ELSE -1,
                                !.trail = Append(@, <<var, val>>)]]

\* An undo that shortens the trail and leaves the assignment as it is.
undo_to_KeepAssignment(rs, trail_len) ==
    LET keep == IF Len(rs.trail) > trail_len THEN trail_len ELSE Len(rs.trail)
    IN  [rs EXCEPT
            !.trail = SubSeq(@, 1, keep),
            !.last_propagated = IF @ > trail_len THEN trail_len ELSE @]

\* An undo that leaves the propagation cursor where it was.
undo_to_KeepsCursor(rs, trail_len) ==
    LET keep == IF Len(rs.trail) > trail_len THEN trail_len ELSE Len(rs.trail)
        popped == {rs.trail[i][1] : i \in (keep + 1)..Len(rs.trail)}
    IN  [rs EXCEPT
            !.assignment = [v \in DOMAIN @ |-> IF v \in popped THEN 0 ELSE @[v]],
            !.trail = SubSeq(@, 1, keep)]

undo_to(rs, trail_len) ==
    LET keep == IF Len(rs.trail) > trail_len THEN trail_len ELSE Len(rs.trail)
        popped == {rs.trail[i][1] : i \in (keep + 1)..Len(rs.trail)}
    IN  [rs EXCEPT
            !.assignment = [v \in DOMAIN @ |-> IF v \in popped THEN 0 ELSE @[v]],
            !.trail = SubSeq(@, 1, keep),
            !.last_propagated = IF @ > trail_len THEN trail_len ELSE @]

\* is_false of propagate: the literal is assigned and its value makes it false
IsFalse(asg, L) ==
    asg[Abs(L)] # 0 /\ ((L > 0 /\ asg[Abs(L)] = -1) \/ (L < 0 /\ asg[Abs(L)] = 1))

\* the literal is true under the assignment
IsTrue(asg, L) ==
    (L > 0 /\ asg[Abs(L)] = 1) \/ (L < 0 /\ asg[Abs(L)] = -1)

\* A replacement scan that finds nothing.
RecFindReplacement_None(rs, ci) == -1

\* A replacement scan that does not skip the watched positions.
RecFindReplacement_AnyPosition(rs, ci) ==
    LET clause == clauses[ci + 1]
        cand == {k \in 0..(Len(clause) - 1) : ~IsFalse(rs.assignment, clause[k + 1])}
    IN  IF cand = {} THEN -1 ELSE CHOOSE k \in cand : \A j \in cand : k <= j

\* for k, L in enumerate(clause): the first position other than the watched
\* ones whose literal is not false; -1 when there is none
RecFindReplacement(rs, ci) ==
    LET clause == clauses[ci + 1]
        cand == {k \in 0..(Len(clause) - 1) :
                    /\ k # rs.watch_pos[ci][1]
                    /\ k # rs.watch_pos[ci][2]
                    /\ ~IsFalse(rs.assignment, clause[k + 1])}
    IN  IF cand = {} THEN -1 ELSE CHOOSE k \in cand : \A j \in cand : k <= j

\* A visit that moves a watch without taking the clause off the list of the
\* literal it leaves.
RecVisitClause_KeepsOldWatcher(rs, false_lit, ci) ==
    LET clause == clauses[ci + 1]
        w1_idx == rs.watch_pos[ci][1]
        w2_idx == rs.watch_pos[ci][2]
        w1_lit == clause[w1_idx + 1]
        w2_lit == clause[w2_idx + 1]
        onW1 == w1_lit = false_lit
        other_idx == IF onW1 THEN w2_idx ELSE w1_idx
        other_lit == IF onW1 THEN w2_lit ELSE w1_lit
        k == RecFindReplacement(rs, ci)
        L == clause[k + 1]
        listed == \E i \in DOMAIN rs.watchlist[false_lit] :
                      rs.watchlist[false_lit][i] = ci
    IN  IF w1_lit # false_lit /\ w2_lit # false_lit
        THEN [rs |-> rs, status |-> "ok", enq |-> <<>>]
        ELSE IF k # -1
        THEN IF ~listed
             THEN [rs |-> [rs EXCEPT
                             !.watch_pos[ci] = IF onW1 THEN <<k, other_idx>>
                                               ELSE <<other_idx, k>>,
                             !.raised = TRUE],
                   status |-> "raise", enq |-> <<>>]
             ELSE [rs |-> [rs EXCEPT
                             !.watch_pos[ci] = IF onW1 THEN <<k, other_idx>>
                                               ELSE <<other_idx, k>>,
                             !.watchlist =
                                 [@ EXCEPT ![L] = Append(@, ci)]],
                   status |-> "ok", enq |-> <<>>]
        ELSE IF rs.assignment[Abs(other_lit)] # 0
        THEN IF IsFalse(rs.assignment, other_lit)
             THEN [rs |-> rs, status |-> "conflict", enq |-> <<>>]
             ELSE [rs |-> rs, status |-> "ok", enq |-> <<>>]
        ELSE LET r == assign_literal(rs, other_lit)
             IN  IF ~r.ok
                 THEN [rs |-> r.rs, status |-> "conflict", enq |-> <<>>]
                 ELSE [rs |-> r.rs, status |-> "ok", enq |-> <<-other_lit>>]

\* The body of "for ci in clauses_watching[:]" for one clause.
RecVisitClause(rs, false_lit, ci) ==
    LET clause == clauses[ci + 1]
        w1_idx == rs.watch_pos[ci][1]
        w2_idx == rs.watch_pos[ci][2]
        w1_lit == clause[w1_idx + 1]
        w2_lit == clause[w2_idx + 1]
        onW1 == w1_lit = false_lit
        other_idx == IF onW1 THEN w2_idx ELSE w1_idx
        other_lit == IF onW1 THEN w2_lit ELSE w1_lit
        k == RecFindReplacement(rs, ci)
        L == clause[k + 1]
        listed == \E i \in DOMAIN rs.watchlist[false_lit] :
                      rs.watchlist[false_lit][i] = ci
    IN  IF w1_lit # false_lit /\ w2_lit # false_lit
        THEN [rs |-> rs, status |-> "ok", enq |-> <<>>]
        ELSE IF k # -1
        THEN IF ~listed
             THEN [rs |-> [rs EXCEPT
                             !.watch_pos[ci] = IF onW1 THEN <<k, other_idx>>
                                               ELSE <<other_idx, k>>,
                             !.raised = TRUE],
                   status |-> "raise", enq |-> <<>>]
             ELSE [rs |-> [rs EXCEPT
                             !.watch_pos[ci] = IF onW1 THEN <<k, other_idx>>
                                               ELSE <<other_idx, k>>,
                             !.watchlist =
                                 [[@ EXCEPT ![false_lit] = RemoveOne(@, ci)]
                                     EXCEPT ![L] = Append(@, ci)]],
                   status |-> "ok", enq |-> <<>>]
        ELSE IF rs.assignment[Abs(other_lit)] # 0
        THEN IF IsFalse(rs.assignment, other_lit)
             THEN [rs |-> rs, status |-> "conflict", enq |-> <<>>]
             ELSE [rs |-> rs, status |-> "ok", enq |-> <<>>]
        ELSE LET r == assign_literal(rs, other_lit)
             IN  IF ~r.ok
                 THEN [rs |-> r.rs, status |-> "conflict", enq |-> <<>>]
                 ELSE [rs |-> r.rs, status |-> "ok", enq |-> <<-other_lit>>]

RECURSIVE RecVisitSnapshot(_, _, _, _, _)
RecVisitSnapshot(rs, false_lit, snap, i, queue) ==
    IF i > Len(snap) THEN [rs |-> rs, status |-> "ok", queue |-> queue]
    ELSE With(RecVisitClause(rs, false_lit, snap[i]),
              LAMBDA r :
                  IF r.status # "ok"
                  THEN [rs |-> r.rs, status |-> r.status, queue |-> queue]
                  ELSE RecVisitSnapshot(r.rs, false_lit, snap, i + 1,
                                        queue \o r.enq))

\* while queue: ...; ok is the value propagate returns
RECURSIVE RecDrainQueue(_, _)
RecDrainQueue(rs, queue) ==
    IF queue = <<>> THEN [rs |-> rs, ok |-> TRUE]
    ELSE With(RecVisitSnapshot(rs, Head(queue), rs.watchlist[Head(queue)], 1,
                               Tail(queue)),
              LAMBDA r :
                  IF r.status # "ok" THEN [rs |-> r.rs, ok |-> FALSE]
                  ELSE RecDrainQueue(r.rs, r.queue))

propagate(rs) ==
    LET queue == [i \in 1..(Len(rs.trail) - rs.last_propagated) |->
                     LET e == rs.trail[rs.last_propagated + i]
                     IN  IF e[2] THEN -e[1] ELSE e[1]]
    IN  With([rs EXCEPT !.last_propagated = Len(rs.trail)],
             LAMBDA rs0 : RecDrainQueue(rs0, queue))

(***************************************************************************)
(* DPLL.check_status and DPLL.choose_branch_literal                        *)
(***************************************************************************)
\* clause_value: the scan of the clause met a true literal
ClauseTrue(asg, clause) == \E j \in DOMAIN clause : IsTrue(asg, clause[j])

\* the scan of a clause without true literal met an unassigned variable
ClauseUndecided(asg, clause) == \E j \in DOMAIN clause : asg[Abs(clause[j])] = 0

\* "True", "False" or "None": the first clause that is neither true nor
\* undecided ends the scan with False.
check_status(asg) ==
    IF \E i \in DOMAIN clauses :
           ~ClauseTrue(asg, clauses[i]) /\ ~ClauseUndecided(asg, clauses[i])
    THEN "False"
    ELSE IF \E i \in DOMAIN clauses : ~ClauseTrue(asg, clauses[i])
    THEN "None"
    ELSE "True"

MaxClauseLen ==
    IF clauses = <<>> THEN 0
    ELSE CHOOSE m \in {Len(clauses[i]) : i \in DOMAIN clauses} :
             \A i \in DOMAIN clauses : Len(clauses[i]) <= m

\* weight = 1.0 / (2 ** len(clause)), in units of 1 / 2 ** MaxClauseLen: the
\* weights and their sums are dyadic fractions that floats hold exactly.
DSJWeight(clause) == 2 ^ (MaxClauseLen - Len(clause))

\* The <<clause, position>> pairs whose literal gets weight added, in the
\* order the two loops meet them: this is the insertion order of scores.
DSJPositions(asg) ==
    LET M == MaxClauseLen
        all == [n \in 1..(Len(clauses) * M) |->
                   <<((n - 1) \div M) + 1, ((n - 1) % M) + 1>>]
        counted(p) ==
            /\ p[2] <= Len(clauses[p[1]])
            /\ ~ClauseTrue(asg, clauses[p[1]])
            /\ ClauseUndecided(asg, clauses[p[1]])
            /\ asg[Abs(clauses[p[1]][p[2]])] = 0
    IN  SelectSeq(all, counted)

\* scores[lit] after the loops
RECURSIVE DSJScore(_, _, _)
DSJScore(ps, i, lit) ==
    IF i > Len(ps) THEN 0
    ELSE (IF clauses[ps[i][1]][ps[i][2]] = lit THEN DSJWeight(clauses[ps[i][1]])
          ELSE 0) + DSJScore(ps, i + 1, lit)

\* max(scores.items(), key=...): the first key, in insertion order, whose
\* score is the largest; None when scores is empty.
BestOf(ps) ==
    With([k \in DOMAIN ps |-> DSJScore(ps, 1, clauses[ps[k][1]][ps[k][2]])],
         LAMBDA sc :
             IF ps = <<>> THEN None
             ELSE LET b == CHOOSE k \in DOMAIN ps :
                               /\ \A m \in DOMAIN ps : sc[m] <= sc[k]
                               /\ \A m \in 1..(k - 1) : sc[m] < sc[k]
                  IN  Some(clauses[ps[b][1]][ps[b][2]]))

choose_branch_literal(asg) == With(DSJPositions(asg), BestOf)

\* {v: bool(self.assignment[v]) for v in range(1, self.num_vars + 1)}
RecModelOf(asg) == [v \in 1..num_vars |-> asg[v] = 1]

(***************************************************************************)
(* DPLL.solve and DPLL._solve_rec.  An activation of _solve_rec that is    *)
(* waiting for a recursive call is a frame [branch_lit, mark, stage]:      *)
(* stage 1 waits for the call of the first branch, stage 2 for the call of *)
(* the second one.                                                         *)
(***************************************************************************)
\* mark = len(self.trail); self.assign_literal(lit) and self.propagate()
TryBranch(rs, lit) ==
    With(assign_literal(rs, lit),
         LAMBDA a :
             IF ~a.ok THEN [ok |-> FALSE, rs |-> a.rs, mark |-> Len(rs.trail)]
             ELSE With(propagate(a.rs),
                       LAMBDA p : [ok |-> p.ok, rs |-> p.rs,
                                   mark |-> Len(rs.trail)]))

\* _solve_rec from "self.undo_to(mark)" of the first branch up to the
\* recursive call of the second branch (call) or to "return None".
SecondBranch(rs, branch_lit, mark) ==
    IF rs.raised THEN [call |-> FALSE, rs |-> rs, mark |-> mark]
    ELSE With(undo_to(rs, mark),
              LAMBDA u :
                  With(TryBranch(u, -branch_lit),
                       LAMBDA b2 :
                           IF b2.ok
                           THEN [call |-> TRUE, rs |-> b2.rs, mark |-> b2.mark]
                           ELSE IF b2.rs.raised
                           THEN [call |-> FALSE, rs |-> b2.rs, mark |-> b2.mark]
                           ELSE [call |-> FALSE, rs |-> undo_to(b2.rs, b2.mark),
                                 mark |-> b2.mark]))

\* The fields of the solver take the values of rs; an exception ends the run.
RecStore(rs, normal_pc) ==
    /\ assignment' = rs.assignment
    /\ rec_trail' = rs.trail
    /\ watch_pos' = rs.watch_pos
    /\ watchlist' = rs.watchlist
    /\ last_propagated' = rs.last_propagated
    /\ pc' = IF rs.raised THEN "error" ELSE normal_pc

\* solve: the per-run reset, the first propagate, the call of _solve_rec
RecSolveFrom(at) ==
    /\ pc = at
    /\ split_count' = 0
    /\ \E p \in {propagate([RecState EXCEPT !.last_propagated = 0,
                                            !.trail = <<>>,
                                            !.assignment = fresh_assign(num_vars)])} :
          IF ~p.ok
          THEN /\ RecStore(p.rs, "done")
               /\ ret' = None
               /\ outcome' = "unsat"
               /\ \E t \in ClockReadings : solve_time' = t /\ clock' = t
          ELSE /\ RecStore(p.rs, "rec_call")
               /\ solve_time' = 0
               /\ UNCHANGED <<ret, outcome, clock>>
    /\ frames' = <<>>
    /\ rv' = None
    /\ run' = run + 1
    /\ UNCHANGED <<opsVars, loadVars, decisions, genVars, expVars, inputVars, storeVars, watchVars, trailVars, callVars, rng,
                   next_check, stack, steps, ok, first, start_watch, var_freq>>

RecSolve == RecSolveFrom("rec_ready")

\* _solve_rec after choosing branch_lit: the split, the first branch and,
\* when that one fails before its recursive call, the second branch
RecSplit(branch_lit) ==
    /\ split_count' = split_count + 1
    /\ rv' = None
    /\ \E b1 \in {TryBranch(RecState, branch_lit)} :
          IF b1.ok
          THEN /\ RecStore(b1.rs, "rec_call")
               /\ frames' = Append(frames, [branch_lit |-> branch_lit,
                                            mark |-> b1.mark, stage |-> 1])
          ELSE \E s \in {SecondBranch(b1.rs, branch_lit, b1.mark)} :
                  IF s.call
                  THEN /\ RecStore(s.rs, "rec_call")
                       /\ frames' = Append(frames, [branch_lit |-> branch_lit,
                                                    mark |-> s.mark, stage |-> 2])
                  ELSE /\ RecStore(s.rs, "rec_ret")
                       /\ frames' = frames

\* _solve_rec from its entry to its first recursive call or to its return
RecEnter ==
    /\ pc = "rec_call"
    /\ \E status \in {check_status(assignment)} :
       \E branch_lit \in {choose_branch_literal(assignment)} :
          IF status = "True" \/ (status = "None" /\ branch_lit = None)
          THEN /\ rv' = Some(RecModelOf(assignment))
               /\ pc' = "rec_ret"
               /\ UNCHANGED <<assignment, rec_trail, watch_pos, watchlist,
                              last_propagated, split_count, frames>>
          ELSE IF status = "False"
          THEN /\ rv' = None
               /\ pc' = "rec_ret"
               /\ UNCHANGED <<assignment, rec_trail, watch_pos, watchlist,
                              last_propagated, split_count, frames>>
          ELSE RecSplit(Get(branch_lit))
    /\ UNCHANGED <<opsVars, loadVars, decisions, genVars, expVars, inputVars, storeVars, watchVars, trailVars, callVars, rng, clock,
                   next_check, stack, steps, ok, ret, outcome, run, first,
                   start_watch, var_freq, solve_time>>

\* a recursive call hands its value back to the frame that made it
RecReturn ==
    /\ pc = "rec_ret"
    /\ frames # <<>>
    /\ LET top == frames[Len(frames)]
           rest == SubSeq(frames, 1, Len(frames) - 1)
       IN  IF rv # None
           THEN /\ frames' = rest
                /\ UNCHANGED <<rv, pc, assignment, rec_trail, watch_pos, watchlist,
                               last_propagated>>
           ELSE IF top.stage = 1
           THEN \E s \in {SecondBranch(RecState, top.branch_lit, top.mark)} :
                   /\ rv' = None
                   /\ IF s.call
                      THEN /\ RecStore(s.rs, "rec_call")
                           /\ frames' = Append(rest, [top EXCEPT !.mark = s.mark,
                                                                 !.stage = 2])
                      ELSE /\ RecStore(s.rs, "rec_ret")
                           /\ frames' = rest
           ELSE /\ RecStore(undo_to(RecState, top.mark), "rec_ret")
                /\ frames' = rest
                /\ rv' = None
    /\ UNCHANGED <<opsVars, loadVars, decisions, genVars, expVars, inputVars, storeVars, watchVars, trailVars, callVars, rng, clock,
                   next_check, stack, steps, ok, ret, outcome, run, first,
                   start_watch, var_freq, solve_time, split_count>>

\* solve: model = self._solve_rec(); record solve_time; return model
RecSolveReturn ==
    /\ pc = "rec_ret"
    /\ frames = <<>>
    /\ ret' = IF rv = None THEN None ELSE Get(rv)
    /\ outcome' = IF rv = None THEN "unsat" ELSE "sat"
    /\ \E t \in ClockReadings : solve_time' = t /\ clock' = t
    /\ pc' = "done"
    /\ UNCHANGED <<opsVars, loadVars, decisions, genVars, expVars, inputVars, storeVars, watchVars, trailVars, callVars, rng,
                   next_check, stack, steps, ok, run, first, start_watch,
                   split_count, recVars>>

\* Satisfiable formulas whose first branch fails: the literal 1 is chosen
\* first and refuted, at once (B1) or one level further down (B2).
B1 == << <<1, 2>>, <<1, 2>>, <<-1, 3>>, <<-1, -3>> >>
B2 == << <<1, 2>>, <<-1, 3, 3>>, <<-1, -3, -3>> >>

InitRec ==
    /\ clauses \in Formulas \cup Scenarios \cup {B1, B2}
    /\ num_vars \in NumVarsFor(clauses)
    /\ time_limit = None
    /\ branch_mode = "static"
    /\ seed = None
    /\ InitObject

NextRec ==
    \/ RecConstruct
    \/ RecSolve
    \/ RecEnter
    \/ RecReturn
    \/ RecSolveReturn

SpecRec == InitRec /\ [][NextRec]_vars

(***************************************************************************)
(* Construction from arbitrary integer clauses                             *)
(***************************************************************************)
\* Clauses with literals that are 0 or whose variable is outside 1..num_vars.
BuildPool ==
    { <<>>, <<1>>, <<0>>, <<1, 0>>, <<-1, 2>>, <<4>>, <<-4>>, <<1, 2, 4>>,
      <<1, 2, 0>>, <<-9>>, <<2, -3>>, <<5, 1>> }

BuildFormulas == UNION {[1..m -> BuildPool] : m \in 0..MaxClauses}

InitBuild ==
    /\ clauses \in BuildFormulas
    /\ num_vars \in 1..3
    /\ time_limit = None
    /\ branch_mode = "static"
    /\ seed = None
    /\ InitObject

NextBuild ==
    \/ Construct
    \/ RecConstruct

SpecBuild == InitBuild /\ [][NextBuild]_vars

(***************************************************************************)
(* Reference notions used to state the properties                          *)
(***************************************************************************)
LitTrueIn(m, lit) == (lit > 0 /\ m[Abs(lit)]) \/ (lit < 0 /\ ~m[Abs(lit)])

ModelSatisfies(m, cs) ==
    \A i \in DOMAIN cs : \E j \in DOMAIN cs[i] : LitTrueIn(m, cs[i][j])

Satisfiable(cs, N) == \E m \in [1..N -> BOOLEAN] : ModelSatisfies(m, cs)

HasEmptyClause(cs) == \E i \in DOMAIN cs : cs[i] = <<>>

Returned == pc = "done"

(***************************************************************************)
(* Properties of DPLLFast.solve                                            *)
(***************************************************************************)
\* C1: whenever solve returns a model, the model makes at least one literal
\* true in every clause of the formula (every CNF, every branch mode).
C1_ModelSatisfiesEveryClause ==
    (Returned /\ outcome = "sat") => ModelSatisfies(ret, clauses)

\* C2: with no time limit, whenever solve returns None as Unsat, no assignment
\* of the variables 1..N satisfies the formula.
C2_UnsatHasNoModel ==
    (Returned /\ time_limit = None /\ outcome = "unsat")
        => ~Satisfiable(clauses, num_vars)

\* C2 witness: Unsat returned after a search that branched and backtracked on
\* a formula without empty clause.
C2_Witness ==
    /\ Returned /\ time_limit = None /\ outcome = "unsat"
    /\ split_count >= 2
    /\ ~HasEmptyClause(clauses)

\* C3: for a formula that contains an empty clause solve returns Unsat at
\* once: no model is returned and no branching decision is made.
C3_EmptyClauseIsUnsat ==
    (Returned /\ HasEmptyClause(clauses))
        => (outcome = "unsat" /\ ret = None /\ split_count = 0)

\* C4: for a formula with no clauses solve returns Sat in every branch mode,
\* and the model gives a Boolean to exactly the variables 1..N.
C4_NoClausesIsSat ==
    (Returned /\ clauses = <<>>)
        => /\ outcome = "sat"
           /\ DOMAIN ret = 1..num_vars
           /\ \A v \in 1..num_vars : ret[v] \in BOOLEAN

\* C4 witness: the empty formula over three variables solved in random mode
\* by three decisions.
C4_Witness ==
    /\ Returned /\ clauses = <<>> /\ num_vars = 3
    /\ branch_mode = "random" /\ split_count = 3 /\ outcome = "sat"



\* The second of two solve calls with the same arguments has returned.
SecondReturned == Returned /\ run = 2

SameAsFirst ==
    /\ outcome = Get(first).outcome
    /\ ret = Get(first).ret
    /\ split_count = Get(first).split_count

\* C5 (as stated): two solve calls in a row on one object with the same
\* (branch_mode, seed) and no time limit give the same outcome, the same model
\* and the same split_count, for every seed value including an absent one.
C5_SameResultTwice == SecondReturned => SameAsFirst

\* C5 (amended): the same holds whenever the generator is not used or is
\* seeded with an integer; the second call starts from the watch positions and
\* watcher lists the first call left behind.
C5_SameResultTwiceSeeded ==
    /\ run = 2 => start_watch = Get(first).watch
    /\ (SecondReturned /\ (branch_mode # "random" \/ seed # None)) => SameAsFirst

\* C5 witness: a second call that started from watch positions other than
\* the constructed ones, branched, and returned a model in seeded random mode.
C5_Witness ==
    /\ SecondReturned /\ branch_mode = "random" /\ seed # None
    /\ outcome = "sat" /\ split_count >= 2
    /\ start_watch[1] # init_wpos1(offsets)


(***************************************************************************)
(* Properties of construction                                              *)
(***************************************************************************)
\* Every literal is non-zero and its variable lies in 1..N.
ValidInput(cs, N) ==
    \A p \in LitPositions(cs) :
        cs[p[1]][p[2]] # 0 /\ Abs(cs[p[1]][p[2]]) <= N

\* C6: building the clause store and a solver (DPLLFast or DPLL) from clauses
\* and num_vars is rejected with an error whenever some literal is 0 or some
\* literal's variable lies outside 1..num_vars: no solver object is produced.
C6_BadInputRejected ==
    (pc # "new" /\ ~ValidInput(clauses, num_vars)) => pc = "error"


(***************************************************************************)
(* Properties of the time limit and of the returned value                  *)
(***************************************************************************)
\* C7 (as stated): the value solve returns tells an Unsat outcome from a
\* Timeout outcome: a Timeout never returns the value that Unsat returns.
C7_UnsatTimeoutDistinct ==
    (Returned /\ outcome = "timeout") => ret # UnsatReturn

\* C7 (amended): solve ends in one of the outcomes Sat, Unsat, Timeout; the
\* returned value is a model exactly when the outcome is Sat and is None both
\* for Unsat and for Timeout.
C7_ReturnTellsSatOnly ==
    Returned =>
        /\ outcome \in {"sat", "unsat", "timeout"}
        /\ (outcome = "sat") <=> (ret # None)

\* C7 witness: a Timeout has been returned, with the value None.
C7_Witness ==
    Returned /\ outcome = "timeout" /\ ret = None /\ steps = CheckInterval

\* C8 (as stated): with a time_limit of 0 or below solve never returns
\* Timeout.
C8_NonPositiveNeverTimesOut ==
    (time_limit # None /\ Get(time_limit) <= 0) => outcome # "timeout"

\* C8 (amended): with an absent time_limit solve never returns Timeout; with a
\* time_limit of 0 or below a solve that reaches its first time check (the
\* main-loop iteration CheckInterval) returns Timeout there.
C8_OnlyAbsentDisables ==
    /\ time_limit = None => outcome # "timeout"
    /\ (time_limit # None /\ Get(time_limit) <= 0 /\ steps >= CheckInterval)
           => (Returned /\ outcome = "timeout" /\ steps = CheckInterval)

\* C8 witness: a solve with time_limit 0 has reached its first time check
\* in the middle of a search.
C8_Witness ==
    /\ time_limit = Some(0) /\ steps = CheckInterval
    /\ clauses = HardFormula /\ stack # <<>>

\* C9 (as stated): with a time limit set solve never returns a model or Unsat
\* with a recorded solve_time >= time_limit.
C9_NoResultPastLimit ==
    (Returned /\ time_limit # None /\ outcome \in {"sat", "unsat"})
        => solve_time < Get(time_limit)

\* C9 (amended): Timeout is returned only at a time check (a main-loop
\* iteration that is a multiple of CheckInterval), with no model and a recorded
\* solve_time greater than time_limit; a solve that goes on after a time check
\* read an elapsed time of at most time_limit there.
C9_TimeoutOnlyAtCheck ==
    /\ (Returned /\ outcome = "timeout")
           => /\ time_limit # None
              /\ ret = None
              /\ solve_time > Get(time_limit)
              /\ steps >= CheckInterval /\ steps % CheckInterval = 0
    /\ (time_limit # None /\ pc = "post" /\ steps = CheckInterval)
           => clock <= Get(time_limit)

\* C9 witness: a Timeout returned under a positive time limit.
C9_Witness ==
    /\ Returned /\ outcome = "timeout"
    /\ Get(time_limit) > 0 /\ solve_time > Get(time_limit)


(***************************************************************************)
(* Properties of the recursive solver DPLL                                 *)
(***************************************************************************)
\* C10: for every CNF with integer literals over 1..num_vars the recursive
\* DPLL.solve runs without exception, returns a dict exactly when the formula
\* is satisfiable, the dict satisfies every clause, and it returns None
\* exactly when no assignment of 1..num_vars satisfies the formula.
C10_RecursiveSolveCorrect ==
    /\ pc # "error"
    /\ Returned =>
          /\ (outcome = "sat") <=> Satisfiable(clauses, num_vars)
          /\ (outcome = "sat") =>
                 (DOMAIN ret = 1..num_vars /\ ModelSatisfies(ret, clauses))
          /\ (outcome = "unsat") <=> ~Satisfiable(clauses, num_vars)
          /\ (outcome = "unsat") <=> (ret = None)

\* C10 witness: a dict returned from the second branch of the first split,
\* after the first branch was refuted one level further down and propagation
\* has moved a watch.
C10_Witness ==
    /\ Returned /\ outcome = "sat" /\ split_count >= 2
    /\ clauses = B2 /\ ~ret[1]
    /\ watch_pos # init_watch_pos(clauses)


(***************************************************************************)
(* The random 3-SAT generators: random_3sat_flat and FixedLength3SAT       *)
(***************************************************************************)
\* One bounded integer drawn from the generator g: the values it can give,
\* each with the generator after the draw.
RandBelow(g, n) ==
    IF g = None
    THEN {[v |-> k, rng |-> g] : k \in 0..(n - 1)}
    ELSE {[v |-> RngDraw(g) % n, rng |-> RngNext(g)]}

\* rng.random() < 0.5
RandomBelowHalf(g) ==
    IF g = None
    THEN {[v |-> b, rng |-> g] : b \in BOOLEAN}
    ELSE {[v |-> RngDraw(g) < 2, rng |-> RngNext(g)]}

\* A selection loop that leaves the chosen element in the pool.
RECURSIVE SampleLoop_WithReplacement(_, _, _, _, _)
SampleLoop_WithReplacement(g, pool, n, i, result) ==
    IF i = 3 THEN {[vars |-> result, rng |-> g]}
    ELSE UNION { SampleLoop_WithReplacement(d.rng, pool, n, i + 1,
                                            Append(result, pool[d.v + 1])) :
                    d \in RandBelow(g, n - i) }

\* rng.sample(population, 3): for i in range(3): j = randbelow(n - i);
\* result[i] = pool[j]; pool[j] = pool[n - i - 1]
RECURSIVE SampleLoop(_, _, _, _, _)
SampleLoop(g, pool, n, i, result) ==
    IF i = 3 THEN {[vars |-> result, rng |-> g]}
    ELSE UNION { SampleLoop(d.rng, [pool EXCEPT ![d.v + 1] = pool[n - i]], n, i + 1,
                            Append(result, pool[d.v + 1])) :
                    d \in RandBelow(g, n - i) }

\* rng.sample(range(1, N + 1), 3)
Sample3(g, N) == SampleLoop(g, [v \in 1..N |-> v], N, 0, <<>>)

\* cnf_flat.py lines 41-46: v1, v2, v3 = rng.sample(...), then the three signs
\* drawn in the order of the list display.
FlatClause(g, N) ==
    UNION { UNION { UNION { UNION {
        {[clause |-> << IF b1.v THEN -s.vars[1] ELSE s.vars[1],
                        IF b2.v THEN -s.vars[2] ELSE s.vars[2],
                        IF b3.v THEN -s.vars[3] ELSE s.vars[3] >>,
          rng |-> b3.rng]} :
        b3 \in RandomBelowHalf(b2.rng) } :
        b2 \in RandomBelowHalf(b1.rng) } :
        b1 \in RandomBelowHalf(s.rng) } :
        s \in Sample3(g, N) }

\* for _ in range(L): ...; lits.extend(c); offsets.append(len(lits))
RECURSIVE FlatLoop(_, _, _, _, _)
FlatLoop(g, N, k, ls, offs) ==
    IF k = 0 THEN {[raised |-> FALSE, lits |-> ls, offsets |-> offs]}
    ELSE UNION { FlatLoop(c.rng, N, k - 1, ls \o c.clause,
                          Append(offs, Len(ls \o c.clause))) :
                    c \in FlatClause(g, N) }

\* The validation both generators start with: N < 3 or L <= 0 raises ValueError.
GenRejects_NegativeOnly(L, N) == N < 3 \/ L < 0

GenRejects(L, N) == N < 3 \/ L <= 0

\* random_3sat_flat(L, N, seed): the results it can give.
random_3sat_flat(L, N, sd) ==
    IF GenRejects(L, N) THEN {[raised |-> TRUE]}
    ELSE FlatLoop(RngInit(sd), N, L, <<>>, <<0>>)

\* A sign loop that walks the sampled variables from the last to the first.
RECURSIVE FixedSigns_Reversed(_, _, _, _)
FixedSigns_Reversed(g, in_use_vars, i, clause) ==
    IF i > Len(in_use_vars) THEN {[clause |-> clause, rng |-> g]}
    ELSE LET var == in_use_vars[Len(in_use_vars) - i + 1]
         IN  UNION { FixedSigns_Reversed(b.rng, in_use_vars, i + 1,
                                         <<IF b.v THEN (-1) * var ELSE var>> \o clause) :
                        b \in RandomBelowHalf(g) }

\* FixedLength3Sat.py lines 42-50: the signs drawn inside the loop over the
\* sampled variables.
RECURSIVE FixedSigns(_, _, _, _)
FixedSigns(g, in_use_vars, i, clause) ==
    IF i > Len(in_use_vars) THEN {[clause |-> clause, rng |-> g]}
    ELSE UNION { FixedSigns(b.rng, in_use_vars, i + 1,
                            Append(clause, IF b.v THEN (-1) * in_use_vars[i]
                                                  ELSE in_use_vars[i])) :
                    b \in RandomBelowHalf(g) }

FixedClause(g, N) ==
    UNION { FixedSigns(s.rng, s.vars, 1, <<>>) : s \in Sample3(g, N) }

\* FixedLength3SAT._generate
RECURSIVE _generate(_, _, _, _)
_generate(g, N, k, cls) ==
    IF k = 0 THEN {[raised |-> FALSE, clauses |-> cls]}
    ELSE UNION { _generate(c.rng, N, k - 1, Append(cls, c.clause)) :
                    c \in FixedClause(g, N) }

\* FixedLength3SAT(L, N, seed), then getCNFList()
FixedLength3SAT(L, N, sd) ==
    IF GenRejects(L, N) THEN {[raised |-> TRUE]}
    ELSE _generate(RngInit(sd), N, L, <<>>)


\* The arguments the generators are called with: L below, at and above 1,
\* N below, at and above 3, an integer seed or none.  With no seed every draw
\* is arbitrary, so those calls are kept to one clause over three variables.
GenInputs ==
    { g \in [L : (-1)..MaxGenL, N : 2..MaxGenN, seed : Seeds] :
        g.seed = None => (g.L <= 1 /\ g.N <= 3) }

InitGen ==
    /\ clauses = <<>>
    /\ num_vars = 0
    /\ time_limit = None
    /\ branch_mode = "static"
    /\ seed = None
    /\ InitArrays
    /\ InitSolver
    /\ pc = "new"
    /\ InitNoExp
    /\ InitNoLoad
    /\ InitNoOps
    /\ gen_in \in {Some(g) : g \in GenInputs}
    /\ flat_out = None /\ fixed_out = None /\ flat_again = None

solverVars == <<clauses, num_vars, lits, offsets, assign, trail, trail_start, wpos1,
                wpos2, head, lit_count, all_lits, split_count, solve_time,
                time_limit, branch_mode, seed, rng, clock, next_check, stack,
                steps, ok, pc, ret, outcome, run, first, start_watch, decisions>>

\* lits, offsets = random_3sat_flat(L, N, seed)
GenFlat ==
    /\ gen_in # None
    /\ flat_out = None
    /\ \E r \in random_3sat_flat(Get(gen_in).L, Get(gen_in).N, Get(gen_in).seed) :
          flat_out' = Some(r)
    /\ UNCHANGED <<opsVars, loadVars, gen_in, fixed_out, flat_again, solverVars, recVars, expVars>>

\* FixedLength3SAT(L, N, seed).getCNFList()
GenFixed ==
    /\ flat_out # None
    /\ fixed_out = None
    /\ \E r \in FixedLength3SAT(Get(gen_in).L, Get(gen_in).N, Get(gen_in).seed) :
          fixed_out' = Some(r)
    /\ UNCHANGED <<opsVars, loadVars, gen_in, flat_out, flat_again, solverVars, recVars, expVars>>

\* A second, independent random_3sat_flat(L, N, seed)
GenFlatAgain ==
    /\ fixed_out # None
    /\ flat_again = None
    /\ \E r \in random_3sat_flat(Get(gen_in).L, Get(gen_in).N, Get(gen_in).seed) :
          flat_again' = Some(r)
    /\ UNCHANGED <<opsVars, loadVars, gen_in, flat_out, fixed_out, solverVars, recVars, expVars>>

NextGen ==
    \/ GenFlat
    \/ GenFixed
    \/ GenFlatAgain

SpecGen == InitGen /\ [][NextGen]_vars

\* The generators were called with arguments they accept.
GenAccepted == gen_in # None /\ Get(gen_in).L >= 1 /\ Get(gen_in).N >= 3

\* A clause of three nonzero literals over pairwise distinct variables of 1..N.
Is3Clause(c, N) ==
    /\ Len(c) = 3
    /\ \A i \in 1..3 : c[i] # 0 /\ Abs(c[i]) \in 1..N
    /\ Cardinality({Abs(c[i]) : i \in 1..3}) = 3

\* Clause i (from 0) of a flat store.
FlatClauseAt(ls, offs, i) == SubSeq(ls, offs[i + 1] + 1, offs[i + 2])

\* C11: for L >= 1 and N >= 3 each generator gives exactly L clauses, each of
\* three nonzero literals over three pairwise distinct variables of 1..N; the
\* flat form has 3*L literals and offsets[i] = 3*i for i in 0..L.
C11_GeneratedShape ==
    GenAccepted =>
      LET L == Get(gen_in).L
          N == Get(gen_in).N
      IN  /\ flat_out # None =>
                /\ ~Get(flat_out).raised
                /\ Len(Get(flat_out).lits) = 3 * L
                /\ Len(Get(flat_out).offsets) = L + 1
                /\ \A i \in 0..L : Get(flat_out).offsets[i + 1] = 3 * i
                /\ \A i \in 0..(L - 1) :
                      Is3Clause(FlatClauseAt(Get(flat_out).lits,
                                             Get(flat_out).offsets, i), N)
          /\ fixed_out # None =>
                /\ ~Get(fixed_out).raised
                /\ Len(Get(fixed_out).clauses) = L
                /\ \A i \in 1..L : Is3Clause(Get(fixed_out).clauses[i], N)

C11_Witness ==
    /\ GenAccepted
    /\ Get(gen_in).L = MaxGenL
    /\ Get(gen_in).N = MaxGenN
    /\ flat_out # None
    /\ fixed_out # None
    /\ Len(Get(fixed_out).clauses) = MaxGenL


\* The three constructions have finished.
GenAllBuilt == flat_out # None /\ fixed_out # None /\ flat_again # None

\* The clause list of a generator result, whichever form it was built in.
RECURSIVE UnflattenFrom(_, _, _)
UnflattenFrom(ls, offs, i) ==
    IF i + 1 >= Len(offs) THEN <<>>
    ELSE <<FlatClauseAt(ls, offs, i)>> \o UnflattenFrom(ls, offs, i + 1)

ClauseListOf(r) ==
    IF r.raised THEN <<>>
    ELSE IF "clauses" \in DOMAIN r THEN r.clauses
    ELSE UnflattenFrom(r.lits, r.offsets, 0)

SameClauseLists ==
    /\ Get(flat_again) = Get(flat_out)
    /\ ClauseListOf(Get(fixed_out)) = ClauseListOf(Get(flat_out))
    /\ Get(fixed_out).raised = Get(flat_out).raised

\* C12 as stated: constructions from the same (L, N, seed) give identical
\* clause lists, whether built by FixedLength3SAT or by random_3sat_flat.
C12_SameTripleSameClauses == GenAllBuilt => SameClauseLists

\* C12: constructions from the same (L, N, seed) with an integer seed give
\* identical clause lists, whether built by FixedLength3SAT or by
\* random_3sat_flat.
C12_SameTripleSameClausesSeeded ==
    (GenAllBuilt /\ Get(gen_in).seed # None) => SameClauseLists

C12_Witness ==
    /\ GenAllBuilt
    /\ GenAccepted
    /\ Get(gen_in).seed # None
    /\ Get(gen_in).L = MaxGenL
    /\ Len(ClauseListOf(Get(fixed_out))) = MaxGenL
    /\ SameClauseLists


\* C13: both generators fail with a configuration error, producing no clause,
\* whenever N < 3 or L < 1, and succeed for every N >= 3 and L >= 1.
C13_RejectsBadConfiguration ==
    /\ flat_out # None =>
          /\ Get(flat_out).raised = ~GenAccepted
          /\ Get(flat_out).raised => DOMAIN Get(flat_out) = {"raised"}
    /\ fixed_out # None =>
          /\ Get(fixed_out).raised = ~GenAccepted
          /\ Get(fixed_out).raised => DOMAIN Get(fixed_out) = {"raised"}

C13_Witness ==
    /\ flat_out # None
    /\ fixed_out # None
    /\ Get(flat_out).raised
    /\ Get(fixed_out).raised
    /\ Get(gen_in).L = 0
    /\ Get(gen_in).N >= 3


(***************************************************************************)
(* run_3way_experiment: one instance per trial, solved once per mode       *)
(***************************************************************************)
\* An unsatisfiable 3-SAT instance over eleven variables on which the static
\* heuristic needs more than CheckInterval main-loop iterations: the literals
\* 1..8 occur most often and are decided first, and under each of their
\* assignments the eight clauses over 9, 10 and 11 fail again.
Hard3Sat ==
    << <<1, 2, 3>>, <<1, 2, 3>>, <<1, 2, 3>>, <<1, 2, 3>>, <<1, 2, 3>>,
       <<4, 5, 6>>, <<4, 5, 6>>, <<4, 5, 6>>, <<4, 5, 6>>, <<4, 5, 6>>,
       <<7, 8, 1>>, <<7, 8, 1>>, <<7, 8, 1>>, <<7, 8, 1>>, <<7, 8, 1>>,
       <<9, 10, 11>>, <<9, 10, -11>>, <<9, -10, 11>>, <<9, -10, -11>>,
       <<-9, 10, 11>>, <<-9, 10, -11>>, <<-9, -10, 11>>, <<-9, -10, -11>> >>


\* modes = ["static", "random", "2clause"]
ModeList == <<"static", "random", "2clause">>

\* num_trials of the runs explored
TrialCounts == 1..2

\* A scoring that counts a solve as late only when it ran strictly past the limit.
par10_time_Strict(st, tl) == IF st > tl THEN 10 * tl ELSE st

\* par10_time(solve_time, time_limit)
par10_time(st, tl) == IF st >= tl THEN 10 * tl ELSE st

\* seed = base_seed + (N * 10_000) + int(r * 100) * 1000 + t, as the seed of
\* trial 0 plus t
TrialSeed == Get(gen_in).seed[1] + trial

\* Either the top of the trial loop of one (N, r) cell with fresh accumulators,
\* or trial 0 of a one-trial cell just after the generator returned Hard3Sat.
InitExp ==
    /\ InitSolver
    /\ InitNoLoad
    /\ InitNoOps
    /\ flat_out = None /\ fixed_out = None /\ flat_again = None
    /\ time_limit \in {Some(t) : t \in 2..(MaxTime - 1)}
    /\ branch_mode = "static"
    /\ seed = None
    /\ trial = 0
    /\ par10_sums = [m \in Modes |-> 0]
    /\ timeouts = [m \in Modes |-> 0]
    /\ charges = <<>>
    /\ perf = None
    /\ num_vars = 0
    /\ \/ /\ gen_in \in {Some(g) : g \in {h \in GenInputs : h.L >= 1 /\ h.N >= 3
                                                          /\ h.seed # None}}
          /\ num_trials \in TrialCounts
          /\ pc = "trial"
          /\ mode_idx = 0
          /\ clauses = <<>>
          /\ inst = None
          /\ InitArrays
       \/ /\ gen_in = Some([L |-> Len(Hard3Sat), N |-> 11, seed |-> Some(0)])
          /\ num_trials = 1
          /\ pc = "mode"
          /\ mode_idx = 1
          /\ clauses = Hard3Sat
          /\ lits = flatten_clauses(Hard3Sat).lits
          /\ offsets = flatten_clauses(Hard3Sat).offsets
          /\ inst = Some([lits |-> lits, offsets |-> offsets])

\* for t in range(num_trials): lits, offsets = random_3sat_flat(L=L, N=N, seed=seed)
ExpGenerate ==
    /\ pc = "trial"
    /\ trial < num_trials
    /\ \E r \in random_3sat_flat(Get(gen_in).L, Get(gen_in).N, Some(TrialSeed)) :
          /\ lits' = r.lits
          /\ offsets' = r.offsets
          /\ inst' = Some([lits |-> r.lits, offsets |-> r.offsets])
          /\ clauses' = ClauseListOf(r)
    /\ mode_idx' = 1
    /\ pc' = "mode"
    /\ UNCHANGED <<opsVars, loadVars, num_vars, lit_count, all_lits, watchVars, trailVars, callVars,
                   split_count, solve_time, rng, clock, next_check, stack, steps,
                   ok, ret, outcome, run, first, start_watch, decisions, genVars,
                   trial, num_trials, par10_sums, timeouts, charges, perf, recVars>>

\* A constructor that reverses the literal buffer it was given, in place.
ExpConstruct_Reorders ==
    /\ pc = "mode"
    /\ num_vars' = Get(gen_in).N
    /\ lits' = [k \in 1..Len(lits) |-> lits[Len(lits) + 1 - k]]
    /\ offsets' = offsets
    /\ assign' = fresh_assign(num_vars')
    /\ trail' = <<>>
    /\ trail_start' = 0
    /\ wpos1' = init_wpos1(offsets)
    /\ wpos2' = init_wpos2(offsets)
    /\ head' = init_head(lits', offsets, num_vars')
    /\ lit_count' = init_lit_count(lits')
    /\ all_lits' = init_all_lits(lits')
    /\ split_count' = 0
    /\ solve_time' = 0
    /\ pc' = "built"
    /\ UNCHANGED <<opsVars, loadVars, clauses, callVars, rng, clock, next_check, stack, steps, ok, ret,
                   outcome, run, first, start_watch, decisions, genVars, expVars,
                   recVars>>

\* for mode in modes: solver = DPLLFast(lits, offsets, num_vars=N)
ExpConstruct ==
    /\ pc = "mode"
    /\ num_vars' = Get(gen_in).N
    /\ lits' = lits
    /\ offsets' = offsets
    /\ IF InitWatchesRaises(lits, offsets, num_vars')
       THEN /\ pc' = "error"
            /\ UNCHANGED <<lit_count, all_lits, watchVars, trailVars>>
       ELSE /\ pc' = "built"
            /\ assign' = fresh_assign(num_vars')
            /\ trail' = <<>>
            /\ trail_start' = 0
            /\ wpos1' = init_wpos1(offsets)
            /\ wpos2' = init_wpos2(offsets)
            /\ head' = init_head(lits, offsets, num_vars')
            /\ lit_count' = init_lit_count(lits)
            /\ all_lits' = init_all_lits(lits)
    /\ split_count' = 0
    /\ solve_time' = 0
    /\ UNCHANGED <<opsVars, loadVars, clauses, callVars, rng, clock, next_check, stack, steps, ok, ret,
                   outcome, run, first, start_watch, decisions, genVars, expVars,
                   recVars>>

\* model = solver.solve(time_limit=time_limit, branch_mode=mode, seed=seed + 999)
ExpSolveCall ==
    /\ pc = "built"
    /\ branch_mode' = ModeList[mode_idx]
    /\ seed' = Some(TrialSeed + 999)
    /\ UNCHANGED <<time_limit, first>>
    /\ SolveReset

\* par10_sums[mode] += par10_time(solver.solve_time, time_limit);
\* if solver.solve_time >= time_limit: timeouts[mode] += 1; then the next mode,
\* or the next trial after the last mode.
ExpRecord ==
    /\ pc = "done"
    /\ LET mode == ModeList[mode_idx]
           charge == par10_time(solve_time, Get(time_limit))
       IN  /\ par10_sums' = [par10_sums EXCEPT ![mode] = @ + charge]
           /\ timeouts' = [timeouts EXCEPT ![mode] =
                              IF solve_time >= Get(time_limit) THEN @ + 1 ELSE @]
           /\ charges' = Append(charges, [trial |-> trial, mode |-> mode,
                                          outcome |-> outcome,
                                          solve_time |-> solve_time,
                                          charge |-> charge])
    /\ IF mode_idx < Len(ModeList)
       THEN /\ mode_idx' = mode_idx + 1
            /\ pc' = "mode"
            /\ trial' = trial
       ELSE /\ mode_idx' = 0
            /\ pc' = "trial"
            /\ trial' = trial + 1
    /\ UNCHANGED <<opsVars, loadVars, inputVars, storeVars, watchVars, trailVars, callVars,
                   split_count, solve_time, rng, clock, next_check, stack, steps,
                   ok, ret, outcome, run, first, start_watch, decisions, genVars,
                   num_trials, inst, perf, recVars>>

\* for mode in modes: perf[N][r][mode] = {"par10_mean": par10_sums[mode] / num_trials,
\* "timeout_rate": timeouts[mode] / num_trials, "L": L}; a quotient a / b is
\* kept as the pair <<a, b>>.
ExpFinish ==
    /\ pc = "trial"
    /\ trial = num_trials
    /\ perf' = Some([m \in Modes |->
                       [par10_mean |-> <<par10_sums[m], num_trials>>,
                        timeout_rate |-> <<timeouts[m], num_trials>>,
                        L |-> Get(gen_in).L]])
    /\ pc' = "finished"
    /\ UNCHANGED <<opsVars, loadVars, inputVars, storeVars, watchVars, trailVars, callVars,
                   split_count, solve_time, rng, clock, next_check, stack, steps,
                   ok, ret, outcome, run, first, start_watch, decisions, genVars,
                   trial, num_trials, mode_idx, par10_sums, timeouts, charges,
                   inst, recVars>>

NextExp ==
    \/ ExpGenerate
    \/ ExpConstruct
    \/ ExpSolveCall
    \/ IterTimeout
    \/ IterPropagate
    \/ IterBacktrack
    \/ IterUnsat
    \/ IterSatAll
    \/ IterSatNoBranch
    \/ IterDecide
    \/ ExpRecord
    \/ ExpFinish

SpecExp == InitExp /\ [][NextExp]_vars


\* C14: in every trial the three modes solve the same instance: building a
\* DPLLFast on (lits, offsets) and running solve leaves lits and offsets as
\* random_3sat_flat returned them.
C14_InstanceUnchanged ==
    inst # None => (lits = Get(inst).lits /\ offsets = Get(inst).offsets)

C14_Witness ==
    /\ pc = "done"
    /\ mode_idx = Len(ModeList)
    /\ Len(charges) = 2
    /\ Get(gen_in).L = MaxGenL
    /\ split_count > 0
    /\ lits = Get(inst).lits
    /\ offsets = Get(inst).offsets


\* The charges of one mode, added up.
RECURSIVE ChargeSum(_, _, _)
ChargeSum(cs, m, i) ==
    IF i > Len(cs) THEN 0
    ELSE (IF cs[i].mode = m THEN cs[i].charge ELSE 0) + ChargeSum(cs, m, i + 1)

\* par10_mean is the sum of the charges divided by num_trials.
MeanIsSumOverTrials ==
    perf # None =>
      \A m \in Modes : Get(perf)[m].par10_mean = <<ChargeSum(charges, m, 1), num_trials>>

\* C15 as stated: a trial is charged 10 * time_limit exactly when its solve
\* ended in Timeout, and its own solve_time otherwise; par10_mean is the sum
\* of the charges divided by num_trials.
C15_ChargedByOutcome ==
    /\ \A i \in 1..Len(charges) :
          charges[i].charge = IF charges[i].outcome = "timeout"
                              THEN 10 * Get(time_limit)
                              ELSE charges[i].solve_time
    /\ MeanIsSumOverTrials

\* C15: a trial is charged 10 * time_limit exactly when its solve_time is at
\* least time_limit, which covers every solve that ended in Timeout, and its
\* own solve_time otherwise; par10_mean is the sum of the charges divided by
\* num_trials.
C15_ChargedBySolveTime ==
    /\ \A i \in 1..Len(charges) :
          /\ charges[i].solve_time >= Get(time_limit)
                => charges[i].charge = 10 * Get(time_limit)
          /\ charges[i].solve_time < Get(time_limit)
                => charges[i].charge = charges[i].solve_time
          /\ charges[i].outcome = "timeout"
                => charges[i].charge = 10 * Get(time_limit)
    /\ MeanIsSumOverTrials

C15_Witness ==
    /\ perf # None
    /\ \E i \in 1..Len(charges) :
          charges[i].outcome = "timeout" /\ charges[i].charge = 10 * Get(time_limit)
    /\ \E i \in 1..Len(charges) :
          charges[i].outcome # "timeout" /\ charges[i].charge = charges[i].solve_time


(***************************************************************************)
(* The same formula solved by two solver objects that differ in the seed   *)
(***************************************************************************)
InitSeed ==
    /\ clauses \in TwiceFormulas \cup Scenarios
    /\ num_vars \in NumVarsFor(clauses)
    /\ time_limit = None
    /\ branch_mode \in Modes
    /\ seed \in Seeds
    /\ (branch_mode = "random" /\ seed = None) => clauses \in ShortFormulas
    /\ InitObject

\* The caller keeps what the first solve did and builds a second solver on the
\* same clauses, to be run with the same branch_mode and another seed.
SeedChange ==
    /\ pc = "done"
    /\ first = None
    /\ first' = Some([ret |-> ret, outcome |-> outcome, split_count |-> split_count,
                      decisions |-> decisions, seed |-> seed])
    /\ seed' \in Seeds \ {seed}
    /\ pc' = "new"
    /\ UNCHANGED <<opsVars, loadVars, inputVars, storeVars, watchVars, trailVars, time_limit,
                   branch_mode, split_count, solve_time, rng, clock, next_check,
                   stack, steps, ok, ret, outcome, run, start_watch, decisions,
                   genVars, expVars, recVars>>

NextSeed ==
    \/ Next
    \/ SeedChange

SpecSeed == InitSeed /\ [][NextSeed]_vars

\* The second solve has returned.
BothSeedsReturned == pc = "done" /\ first # None

\* C16: in branch modes static and 2clause two solves that differ only in the
\* seed make the same decision sequence and return the same outcome, model and
\* split_count.
C16_SeedIgnored ==
    (BothSeedsReturned /\ branch_mode \in {"static", "2clause"}) =>
        /\ decisions = Get(first).decisions
        /\ outcome = Get(first).outcome
        /\ ret = Get(first).ret
        /\ split_count = Get(first).split_count

C16_Witness ==
    /\ BothSeedsReturned
    /\ branch_mode = "2clause"
    /\ seed # Get(first).seed
    /\ seed # None
    /\ Get(first).seed # None
    /\ Len(decisions) >= 2
    /\ decisions = Get(first).decisions


\* A step that pushes a new decision frame: the stack grows by one frame that
\* is not flipped.
PushesNewFrame ==
    /\ Len(stack') = Len(stack) + 1
    /\ ~stack'[Len(stack')].flipped

\* A step that enters solve.
EntersSolve == pc \in {"ready", "done"} /\ pc' = "loop"

\* C17: split_count starts from 0 at every solve call, grows by one with every
\* new decision frame and with nothing else (re-pushing a frame as flipped does
\* not count), so when solve returns it is the number of new frames pushed
\* during that solve.
C17_SplitCountCountsNewFrames ==
    /\ [](pc \in {"loop", "post", "done"} => split_count = Len(decisions))
    /\ [][IF EntersSolve THEN split_count' = 0
          ELSE IF PushesNewFrame THEN split_count' = split_count + 1
          ELSE split_count' = split_count]_vars

C17_Witness ==
    /\ pc = "done"
    /\ run = 2
    /\ Get(first).split_count >= 2
    /\ split_count = Get(first).split_count
    /\ \E i \in 1..Len(stack) : stack[i].flipped


(***************************************************************************)
(* What the heuristics are to return, stated over the clause store         *)
(***************************************************************************)
\* A solver object exists and its arrays are those of the formula.
Constructed == pc \in {"ready", "loop", "post", "done"}

\* How often literal l occurs in the whole formula.
Occurrences(l) == Cardinality({k \in DOMAIN lits : lits[k] = l})

\* The position (from 1) at which literal l first occurs in the clause store.
FirstPosition(l) == CHOOSE k \in DOMAIN lits :
                        lits[k] = l /\ \A j \in 1..(k - 1) : lits[j] # l

\* The literals of the formula whose variable is unassigned under a.
FreeLiterals(a) == {lits[k] : k \in {j \in DOMAIN lits : a[Abs(lits[j])] = 0}}

\* The free literal of highest occurrence count, the earliest in the clause
\* store among those of equal count; None when there is no free literal.
StaticExpected(a) ==
    IF FreeLiterals(a) = {} THEN None
    ELSE Some(CHOOSE l \in FreeLiterals(a) :
                \A m \in FreeLiterals(a) :
                    \/ Occurrences(l) > Occurrences(m)
                    \/ /\ Occurrences(l) = Occurrences(m)
                       /\ FirstPosition(l) <= FirstPosition(m))

\* C18: the static heuristic returns, among the literals of the formula whose
\* variable is unassigned, one of highest occurrence count over the whole
\* formula, the first in the clause store among those of equal count; the
\* counts are those computed at construction, whatever the assignment.
C18_StaticPicksMostFrequent ==
    Constructed =>
        /\ _choose_branch_lit_static(assign) = StaticExpected(assign)
        /\ lit_count = init_lit_count(lits)
        /\ \A l \in DOMAIN lit_count : lit_count[l] = Occurrences(l)

\* A decision was just taken in static mode from an assignment under which two
\* free literals tied for the highest count.
C18_Witness ==
    /\ pc = "loop"
    /\ branch_mode = "static"
    /\ Len(decisions) >= 2
    /\ stack # <<>>
    /\ ~stack[Len(stack)].flipped
    /\ trail # <<>>
    /\ LET before == _undo_to(assign, trail, trail_start, stack[Len(stack)].mark).assign
       IN  /\ StaticExpected(before) = Some(stack[Len(stack)].branch_lit)
           /\ \E m \in FreeLiterals(before) :
                 /\ m # stack[Len(stack)].branch_lit
                 /\ Occurrences(m) = Occurrences(stack[Len(stack)].branch_lit)


\* The positions (from 1) of clause ci (from 0) in the clause store.
PositionsOf(ci) == (offsets[ci + 1] + 1)..offsets[ci + 2]

\* The clauses that have no true literal and exactly two unassigned literals.
TwoClauses(a) ==
    { ci \in 0..(NumClauses(offsets) - 1) :
        /\ \A k \in PositionsOf(ci) : value(a, lits[k]) # "True"
        /\ Cardinality({k \in PositionsOf(ci) : a[Abs(lits[k])] = 0}) = 2 }

\* The positions of the unassigned literals of those clauses, in scan order.
TwoClausePositions(a) ==
    UNION { {k \in PositionsOf(ci) : a[Abs(lits[k])] = 0} : ci \in TwoClauses(a) }

\* The literal of highest occurrence count among them, the first in scan order
\* among those of equal count; None when there is no such clause.
TwoClauseExpected(a) ==
    IF TwoClausePositions(a) = {} THEN None
    ELSE Some(lits[CHOOSE k \in TwoClausePositions(a) :
                     \A j \in TwoClausePositions(a) :
                         \/ Occurrences(lits[k]) > Occurrences(lits[j])
                         \/ /\ Occurrences(lits[k]) = Occurrences(lits[j])
                            /\ (k <= j \/ lits[k] = lits[j])])

\* C19: in 2clause mode the heuristic returns the literal of highest global
\* occurrence count among the unassigned literals of the clauses that have no
\* true literal and exactly two unassigned literals, the first in clause-scan
\* order among those of equal count; when there is no such clause it returns
\* what the static heuristic returns.
C19_TwoClausePicksFromShortClauses ==
    Constructed =>
        LET chosen == _choose_branch_lit("2clause", assign, rng)
        IN  IF TwoClausePositions(assign) # {}
            THEN chosen = {[lit |-> TwoClauseExpected(assign), rng |-> rng]}
            ELSE chosen = {[lit |-> _choose_branch_lit_static(assign), rng |-> rng]}

\* A decision was just taken in 2clause mode from a clause of two unassigned
\* literals, and it is not the literal the static heuristic would have taken.
C19_Witness ==
    /\ pc = "loop"
    /\ branch_mode = "2clause"
    /\ stack # <<>>
    /\ ~stack[Len(stack)].flipped
    /\ LET before == _undo_to(assign, trail, trail_start, stack[Len(stack)].mark).assign
       IN  /\ TwoClauseExpected(before) = Some(stack[Len(stack)].branch_lit)
           /\ _choose_branch_lit_static(before) # Some(stack[Len(stack)].branch_lit)


\* C20: every heuristic (static, random, 2clause) returns None whenever every
\* variable 1..N is assigned.
C20_NoBranchWhenAllAssigned ==
    (Constructed /\ AllAssigned(assign)) =>
        /\ _choose_branch_lit_static(assign) = None
        /\ _choose_branch_lit_2clause(assign) = None
        /\ \A c \in _choose_branch_lit_random(assign, rng) : c.lit = None
        /\ \A m \in Modes : \A c \in _choose_branch_lit(m, assign, rng) : c.lit = None

\* Every variable of a formula with at least two variables has been assigned,
\* by decisions and by propagation, and the heuristics are asked again.
C20_Witness ==
    /\ Constructed
    /\ AllAssigned(assign)
    /\ num_vars >= 2
    /\ decisions # <<>>
    /\ Len(trail) > Len(decisions)
    /\ _choose_branch_lit(branch_mode, assign, rng) = {[lit |-> None, rng |-> rng]}


(***************************************************************************)
(* The DIMACS loader CNF(dimacsFile) and DPLL(dimacs_file=path)            *)
(* A file is the sequence of its lines and a line, once stripped and       *)
(* split, the sequence of its tokens: Num(k) is the decimal text of the     *)
(* integer k, Word(s) the word s.  A literal string of CNFList is the pair *)
(* of its prefix and its digits: <<"", 3>> is "3" and <<"¬", 3>> is "¬3".  *)
(***************************************************************************)
Num(k) == <<"n", k>>
Word(s) == <<"w", s>>
IsNum(tok) == tok[1] = "n"

\* line.startswith('c') and line.startswith('p')
StartsWithC(line) == ~IsNum(line[1]) /\ line[1][2] \in {"c", "cnf"}
StartsWithP(line) == ~IsNum(line[1]) /\ line[1][2] = "p"

\* The loop over the tokens of a clause line, lines 68-74: stop at the token
\* "0", turn "-v" into "¬v", keep any other token.
RECURSIVE TokenLoop(_, _, _)
TokenLoop(tokens, i, temp) ==
    IF i > Len(tokens) THEN temp
    ELSE IF IsNum(tokens[i]) /\ tokens[i][2] = 0 THEN temp
    ELSE IF IsNum(tokens[i]) /\ tokens[i][2] < 0
         THEN TokenLoop(tokens, i + 1, Append(temp, <<"¬", -tokens[i][2]>>))
         ELSE TokenLoop(tokens, i + 1, Append(temp, <<"", tokens[i][2]>>))

\* One iteration of the loop over the lines of the file, lines 49-76.
LoadLine(st, line) ==
    IF st.raised THEN st
    ELSE IF line = <<>> THEN st
    ELSE IF StartsWithC(line) THEN st
    ELSE IF StartsWithP(line)
    THEN IF Len(line) < 4 THEN [st EXCEPT !.raised = TRUE]
         ELSE [st EXCEPT !.numVars = line[3][2], !.numClauses = line[4][2]]
    ELSE LET temp == TokenLoop(line, 1, <<>>)
         IN  IF temp # <<>> THEN [st EXCEPT !.CNFList = Append(@, temp)] ELSE st

RECURSIVE LoadLines(_, _, _)
LoadLines(st, file, i) ==
    IF i > Len(file) THEN st
    ELSE LoadLines(LoadLine(st, file[i]), file, i + 1)

\* CNF(dimacsFile)
LoadCNFFile(file) ==
    LoadLines([CNFList |-> <<>>, numVars |-> 0, numClauses |-> 0, raised |-> FALSE],
              file, 1)


\* The lines the files are made of: a comment, problem lines declaring three,
\* one and zero variables, a blank line, whole clauses, and a clause written
\* over two lines.
LinePool ==
    { <<Word("c"), Word("x")>>,
      <<Word("p"), Word("cnf"), Num(3), Num(2)>>,
      <<Word("p"), Word("cnf"), Num(1), Num(1)>>,
      <<Word("p"), Word("cnf"), Num(0), Num(2)>>,
      <<>>,
      <<Num(1), Num(0)>>,
      <<Num(-1), Num(2), Num(0)>>,
      <<Num(1), Num(-2)>>,
      <<Num(3), Num(0)>> }

Files == UNION {[1..m -> LinePool] : m \in 0..MaxLines}

InitLoad ==
    /\ clauses = <<>>
    /\ num_vars = 0
    /\ time_limit = None
    /\ branch_mode = "static"
    /\ seed = None
    /\ InitArrays /\ InitSolver /\ pc = "new" /\ InitNoGen /\ InitNoExp
    /\ InitNoOps
    /\ dimacs \in {Some(f) : f \in Files}
    /\ cnf = None

\* base = CNF(path)
LoadCNF ==
    /\ pc = "new"
    /\ dimacs # None
    /\ cnf' = Some(LoadCNFFile(Get(dimacs)))
    /\ pc' = IF Get(cnf').raised THEN "error" ELSE "loaded"
    /\ UNCHANGED <<opsVars, dimacs, inputVars, storeVars, watchVars, trailVars, callVars,
                   split_count, solve_time, rng, clock, next_check, stack, steps,
                   ok, ret, outcome, run, first, start_watch, decisions, recVars,
                   genVars, expVars>>

\* DPLL(dimacs_file=path), lines 38-64: clauses and num_vars are taken from the
\* loader as they are; abs(lit) in the var_freq loop raises TypeError on the
\* first literal, which is a str.
RecConstructFile ==
    /\ pc = "new"
    /\ dimacs # None
    /\ cnf' = Some(LoadCNFFile(Get(dimacs)))
    /\ IF Get(cnf').raised
       THEN /\ pc' = "error"
            /\ UNCHANGED <<inputVars, assignment, rec_trail, var_freq, watch_pos,
                           watchlist>>
       ELSE /\ clauses' = Get(cnf').CNFList
            /\ num_vars' = Get(cnf').numVars
            /\ assignment' = fresh_assign(num_vars')
            /\ rec_trail' = <<>>
            /\ IF clauses' # <<>>
               THEN /\ pc' = "error"
                    /\ var_freq' = [v \in 0..num_vars' |-> 0]
                    /\ UNCHANGED <<watch_pos, watchlist>>
               ELSE /\ pc' = "rec_ready"
                    /\ var_freq' = init_var_freq(clauses', num_vars')
                    /\ watch_pos' = init_watch_pos(clauses')
                    /\ watchlist' = init_watchlist(clauses', num_vars')
    /\ last_propagated' = 0
    /\ split_count' = 0
    /\ solve_time' = 0
    /\ UNCHANGED <<opsVars, dimacs, storeVars, watchVars, trailVars, callVars, rng, clock,
                   next_check, stack, steps, ok, ret, outcome, run, first,
                   start_watch, decisions, frames, rv, genVars, expVars>>

NextLoad ==
    \/ LoadCNF
    \/ RecConstructFile

SpecLoad == InitLoad /\ [][NextLoad]_vars

\* The clauses a DIMACS file denotes: its integer tokens outside comment and
\* problem lines, cut at every 0, whatever the line breaks.
RECURSIVE ClauseTokens(_, _)
ClauseTokens(file, i) ==
    IF i > Len(file) THEN <<>>
    ELSE (IF file[i] = <<>> \/ StartsWithC(file[i]) \/ StartsWithP(file[i])
          THEN <<>>
          ELSE [k \in 1..Len(file[i]) |-> file[i][k][2]]) \o ClauseTokens(file, i + 1)

RECURSIVE CutAtZero(_, _, _)
CutAtZero(toks, i, cur) ==
    IF i > Len(toks) THEN <<>>
    ELSE IF toks[i] = 0 THEN <<cur>> \o CutAtZero(toks, i + 1, <<>>)
    ELSE CutAtZero(toks, i + 1, Append(cur, toks[i]))

DimacsClauses(file) == CutAtZero(ClauseTokens(file, 1), 1, <<>>)

\* The literal string the loader writes for the integer literal l.
LitString(l) == IF l < 0 THEN <<"¬", -l>> ELSE <<"", l>>

\* The CNF object has been built from the file.
Loaded == pc = "loaded"

\* Every clause of the file is closed by a 0.
Terminated(file) ==
    LET toks == ClauseTokens(file, 1)
    IN  toks = <<>> \/ toks[Len(toks)] = 0

\* C21: the literals read on consecutive lines up to the terminating 0 form
\* one clause: the parsed clause list has one clause per 0 terminator, made of
\* the literals before it.
C21_ClauseMaySpanLines ==
    Loaded /\ Terminated(Get(dimacs)) =>
        LET expected == DimacsClauses(Get(dimacs))
        IN  /\ Len(Get(cnf).CNFList) = Len(expected)
            /\ \A i \in 1..Len(expected) :
                  Get(cnf).CNFList[i] = [k \in 1..Len(expected[i]) |->
                                            LitString(expected[i][k])]


\* The problem line is absent, or declares num_vars 0.
NumVarsUndeclared(file) ==
    \A i \in 1..Len(file) :
        file[i] # <<>> /\ StartsWithP(file[i]) => file[i][3][2] = 0

\* The largest |literal| of the parsed clauses, 0 when there is none.
MaxLiteral(cs) ==
    LET seen == {cs[i][k][2] : <<i, k>> \in {<<i, k>> \in (1..Len(cs)) \X (1..4) :
                                                k <= Len(cs[i])}}
    IN  IF seen = {} THEN 0 ELSE CHOOSE n \in seen : \A o \in seen : o <= n

\* C22: when the problem line declares num_vars 0 or is absent, the loader
\* reports num_vars as the largest |literal| seen in the clauses.
C22_NumVarsInferred ==
    Loaded /\ NumVarsUndeclared(Get(dimacs)) =>
        Get(cnf).numVars = MaxLiteral(Get(cnf).CNFList)


\* DPLL(dimacs_file=path) has run on a file the loader could read.
FileBuilt == cnf # None /\ pc \in {"error", "rec_ready"} /\ ~Get(cnf).raised

\* C23: after DPLL(dimacs_file=path) construction has completed, and
\* self.clauses are the signed integer clauses of the file's content, every
\* literal nonzero with |literal| <= num_vars.
C23_BuiltFromFile ==
    FileBuilt =>
        /\ pc = "rec_ready"
        /\ clauses = DimacsClauses(Get(dimacs))
        /\ \A i \in 1..Len(clauses) : \A k \in 1..Len(clauses[i]) :
              /\ clauses[i][k] \in Int \ {0}
              /\ Abs(clauses[i][k]) <= num_vars


\* DPLL.solve has made its first propagation pass and no branching decision yet.
AfterInitialPropagation == pc = "rec_call" /\ frames = <<>> /\ split_count = 0

\* C24: after the first propagation pass of solve and before any branching
\* decision, the literal of every unit clause of the input is assigned true.
C24_UnitClausesAssignedFirst ==
    AfterInitialPropagation =>
        \A i \in DOMAIN clauses :
            Len(clauses[i]) = 1 => IsTrue(assignment, clauses[i][1])


\* The position of the topmost unflipped frame of the stack, 0 when every
\* frame is flipped.
TopUnflipped(stk) ==
    LET open == {i \in DOMAIN stk : ~stk[i].flipped}
    IN  IF open = {} THEN 0 ELSE CHOOSE i \in open : \A j \in open : j <= i

\* Propagation has reported a conflict to the driver.
AtConflict == pc = "post" /\ ~ok

\* C25: on every conflict the driver removes the flipped frames above the
\* topmost unflipped frame, undoes the trail to that frame's mark, puts the
\* frame back flipped and assigns the negation of its branch literal; the
\* frames below are left alone; it returns Unsat exactly when no frame is
\* unflipped.  So a frame goes from unflipped to flipped once and a flipped
\* frame reached by a conflict is removed.
C25_ConflictFlipsTopmostUnflipped ==
    [][AtConflict =>
          LET j == TopUnflipped(stack)
          IN  IF j = 0
              THEN pc' = "done" /\ outcome' = "unsat" /\ ret' = UnsatReturn
              ELSE /\ pc' = "loop"
                   /\ outcome' = "none"
                   /\ stack' = Append(SubSeq(stack, 1, j - 1),
                                      [stack[j] EXCEPT !.flipped = TRUE])
                   /\ trail' = Append(SubSeq(trail, 1, stack[j].mark),
                                      Abs(stack[j].branch_lit))
                   /\ value(assign', -stack[j].branch_lit) = "True"
                   /\ \A v \in 1..num_vars :
                         v # Abs(stack[j].branch_lit) =>
                             assign'[v] = IF \E i \in 1..stack[j].mark : trail[i] = v
                                          THEN assign[v] ELSE 0]_vars

\* A backtrack has just flipped the top frame, and frames pushed by earlier
\* decisions of this run have been removed.
C25_Witness ==
    /\ pc = "loop"
    /\ stack # <<>>
    /\ stack[Len(stack)].flipped
    /\ Len(stack) < split_count


\* The main loop of a solve call is running or has returned.
InSolve == pc \in {"loop", "post", "done"} /\ run > 0

\* C26: the clock is read for the time limit only at the main-loop iterations
\* CheckInterval, 2 * CheckInterval, ...; solve returns Timeout only at such
\* an iteration, with a limit set and an elapsed time above it; a solve that
\* ends before iteration CheckInterval never returns Timeout.
C26_TimeoutIsCooperative ==
    /\ [](InSolve /\ time_limit # None =>
              next_check = CheckInterval * ((steps \div CheckInterval) + 1))
    /\ [](pc = "loop" /\ time_limit # None /\ steps + 1 >= next_check =>
              (steps + 1) % CheckInterval = 0)
    /\ [][outcome' = "timeout" /\ outcome # "timeout" =>
              /\ time_limit # None
              /\ steps' >= CheckInterval /\ steps' % CheckInterval = 0
              /\ solve_time' > Get(time_limit)]_vars
    /\ [](Returned /\ steps < CheckInterval => outcome # "timeout")

\* A Timeout returned at the second time check, the first one having passed.
C26_Witness ==
    /\ Returned /\ outcome = "timeout"
    /\ steps = 2 * CheckInterval


(***************************************************************************)
(* Termination of solve.  Both solvers are sequential programs: whenever   *)
(* a step of the running call is possible the interpreter takes it, which  *)
(* is weak fairness of the next-state action.  With no time limit the      *)
(* clock reading decides nothing.                                          *)
(***************************************************************************)
InitLive == Init \/ InitRec

NextLive ==
    \/ Next
    \/ NextRec

SpecLive == InitLive /\ [][NextLive]_vars /\ WF_vars(NextLive)

\* A solve call is under way.
Solving == pc \in {"loop", "post", "rec_call", "rec_ret"}

\* C27: with no time limit solve terminates in every branch mode: every
\* propagation pass hands its verdict to the driver, and every call that is
\* under way reaches a Sat or Unsat return.
C27_SolveTerminates ==
    /\ (pc = "loop") ~> (pc = "post")
    /\ Solving ~> (Returned /\ outcome \in {"sat", "unsat"})
    /\ <>Returned

\* A search that took decisions and met conflicts has returned.
C27_Witness ==
    /\ Returned /\ time_limit = None
    /\ outcome = "unsat" /\ split_count >= 2


(***************************************************************************)
(* The watch structures of both solvers, over one or two solve calls on    *)
(* the same object: no solver resets its watches between calls.            *)
(***************************************************************************)
\* The object is a DPLLFast / a DPLL.
FastBuilt == assign # <<>>
RecBuilt == assignment # <<>>

SolveAgainFast == FastBuilt /\ SolveAgain

\* solve() called a second time on the same DPLL object
RecSolveAgain ==
    /\ RecBuilt
    /\ run = 1
    /\ RecSolveFrom("done")

InitWatch == InitTwice \/ InitRec

NextWatch ==
    \/ Next
    \/ SolveAgainFast
    \/ NextRec
    \/ RecSolveAgain

SpecWatch == InitWatch /\ [][NextWatch]_vars


\* The watch arrays of the DPLLFast object as the record propagation works on.
FastState ==
    [assign |-> assign, trail |-> trail, wpos1 |-> wpos1, wpos2 |-> wpos2,
     head |-> head]

\* Clause ci of a DPLLFast has two different watched positions inside it.
FastW1(ci) ==
    LET s == OffAt(offsets, ci)
        e == OffAt(offsets, ci + 1)
    IN  /\ wpos1[ci] # wpos2[ci]
        /\ s <= wpos1[ci] /\ wpos1[ci] < e
        /\ s <= wpos2[ci] /\ wpos2[ci] < e

\* Clause ci of a DPLL has two different watched positions inside it.
RecW1(ci) ==
    /\ watch_pos[ci][1] # watch_pos[ci][2]
    /\ watch_pos[ci][1] \in 0..(Len(clauses[ci + 1]) - 1)
    /\ watch_pos[ci][2] \in 0..(Len(clauses[ci + 1]) - 1)

\* C28 (W1): in every state of a solve every clause of length >= 2 has two
\* different watched positions, both inside the clause, and the position the
\* replacement scan hands to a watch move is inside the clause and differs
\* from both current watched positions.
C28_W1 ==
    /\ FastBuilt =>
          \A ci \in DOMAIN wpos1 :
              OffAt(offsets, ci + 1) - OffAt(offsets, ci) >= 2 =>
                  /\ FastW1(ci)
                  /\ LET k == FindReplacement(FastState, ci)
                     IN  k # -1 =>
                             /\ k \notin {wpos1[ci], wpos2[ci]}
                             /\ OffAt(offsets, ci) <= k /\ k < OffAt(offsets, ci + 1)
    /\ RecBuilt =>
          \A ci \in DOMAIN watch_pos :
              Len(clauses[ci + 1]) >= 2 =>
                  /\ RecW1(ci)
                  /\ LET k == RecFindReplacement(RecState, ci)
                     IN  k # -1 =>
                             /\ k \notin {watch_pos[ci][1], watch_pos[ci][2]}
                             /\ k \in 0..(Len(clauses[ci + 1]) - 1)

\* A second solve call on a DPLL object has returned, and a clause is watched
\* at other positions than the two it started with.
C28_Witness ==
    /\ RecBuilt /\ Returned /\ run = 2
    /\ \E ci \in DOMAIN watch_pos :
          Len(clauses[ci + 1]) >= 3 /\ watch_pos[ci] # <<0, 1>>


\* Clause ci of a DPLL is listed as a watcher of the literal l.
RecListed(l, ci) == \E i \in DOMAIN watchlist[l] : watchlist[l][i] = ci

\* The literal l stands at one of the two watched positions of clause ci.
RecWatches(l, ci) ==
    /\ clauses[ci + 1] # <<>>
    /\ \/ clauses[ci + 1][watch_pos[ci][1] + 1] = l
       \/ clauses[ci + 1][watch_pos[ci][2] + 1] = l

\* C29 (watcher consistency): whenever propagation is not in the middle of a
\* pass, after construction, after the moves of a pass, after backtracking, a
\* clause is in the watcher list of a literal if and only if that literal
\* stands at one of the clause's two watched positions.
C29_WatcherConsistency ==
    RecBuilt /\ pc # "error" =>
        \A l \in DOMAIN watchlist : \A ci \in DOMAIN watch_pos :
            RecListed(l, ci) <=> RecWatches(l, ci)

\* After a backtrack (a second branch is being explored) a clause with a
\* repeated literal is watched at other positions than it started with.
C29_Witness ==
    /\ RecBuilt /\ pc = "rec_call"
    /\ \E i \in DOMAIN frames : frames[i].stage = 2
    /\ \E ci \in DOMAIN watch_pos :
          /\ watch_pos[ci] # <<0, 1>>
          /\ Len(clauses[ci + 1]) >= 3
          /\ \E j, k \in DOMAIN clauses[ci + 1] :
                j # k /\ clauses[ci + 1][j] = clauses[ci + 1][k]


\* Propagation has just returned Ok to the driver of a DPLLFast / of a DPLL.
FastPropagatedOk == FastBuilt /\ pc = "post" /\ ok
RecPropagatedOk == RecBuilt /\ pc = "rec_call"

\* The two watched literals of clause ci.
FastWatched(ci) == <<LitAt(lits, wpos1[ci]), LitAt(lits, wpos2[ci])>>
RecWatched(ci) ==
    <<clauses[ci + 1][watch_pos[ci][1] + 1], clauses[ci + 1][watch_pos[ci][2] + 1]>>

\* W2 for a pair w of watched literals under the truth values val(_).
W2Holds(w, val(_)) ==
    /\ (val(w[1]) # "True" /\ val(w[2]) # "True")
           => (val(w[1]) # "False" /\ val(w[2]) # "False")
    /\ ~(val(w[1]) = "False" /\ val(w[2]) = "False")

FastValue(l) == value(assign, l)
RecValue(l) ==
    IF IsTrue(assignment, l) THEN "True"
    ELSE IF IsFalse(assignment, l) THEN "False" ELSE "Unassigned"

\* C30 (W2): in every state where propagation has returned Ok to the search
\* driver, for every clause of length >= 2, if neither watched literal is true
\* then neither is false; the two watched literals are never both false.
C30_W2 ==
    /\ FastPropagatedOk =>
          \A ci \in DOMAIN wpos1 :
              OffAt(offsets, ci + 1) - OffAt(offsets, ci) >= 2 =>
                  W2Holds(FastWatched(ci), FastValue)
    /\ RecPropagatedOk =>
          \A ci \in DOMAIN watch_pos :
              Len(clauses[ci + 1]) >= 2 => W2Holds(RecWatched(ci), RecValue)

\* Propagation has returned Ok after a backtrack's undo (the second branch of
\* a split is explored) with a clause watching one true and one false literal.
C30_Witness ==
    /\ RecPropagatedOk
    /\ \E i \in DOMAIN frames : frames[i].stage = 2
    /\ \E ci \in DOMAIN watch_pos :
          /\ Len(clauses[ci + 1]) >= 2
          /\ \E a, b \in 1..2 :
                RecValue(RecWatched(ci)[a]) = "False" /\ RecValue(RecWatched(ci)[b]) = "True"


(***************************************************************************)
(* The methods of the two solver objects called one at a time:             *)
(* assign_literal, undo_to and propagate of a DPLL, with propagate taken   *)
(* one dequeue and one clause visit at a time, and _assign_lit, _undo_to   *)
(* and the propagation of a DPLLFast.  The arguments are drawn from the    *)
(* literals over 1..num_vars and from the marks 0..num_vars + 1.           *)
(***************************************************************************)
OpsFormulas ==
    {B2, << <<1, 2, 3>>, <<-1, -2, 3>> >>, << <<2, 2, -1>>, <<1>> >>}

Literals == {l \in (-num_vars)..num_vars : l # 0}
Marks == 0..(num_vars + 1)

Called(name, arg, result) == Some([name |-> name, arg |-> arg, ok |-> result])

InitOps ==
    /\ clauses \in OpsFormulas
    /\ num_vars \in NumVarsFor(clauses)
    /\ time_limit = None
    /\ branch_mode = "static"
    /\ seed = None
    /\ InitObject

opsFrame ==
    <<loadVars, decisions, genVars, expVars, inputVars, storeVars, watchVars,
      callVars, rng, clock, next_check, stack, steps, ok, ret, outcome, run, first,
      start_watch, var_freq, frames, rv, split_count, solve_time>>

\* propagate has returned: its local variables are gone.
PropLocalsGone ==
    prop_queue' = <<>> /\ prop_lit' = 0 /\ prop_watching' = <<>> /\ prop_i' = 0

\* self.assign_literal(lit) on a DPLL
OpsAssign ==
    /\ pc = "rec_ready"
    /\ \E lit \in Literals :
       \E r \in {assign_literal(RecState, lit)} :
          /\ assignment' = r.rs.assignment
          /\ rec_trail' = r.rs.trail
          /\ op' = Called("assign_literal", lit, r.ok)
    /\ UNCHANGED <<pc, watch_pos, watchlist, last_propagated, trailVars,
                   prop_queue, prop_lit, prop_watching, prop_i, opsFrame>>

\* self.undo_to(trail_len) on a DPLL
OpsUndo ==
    /\ pc = "rec_ready"
    /\ \E trail_len \in Marks :
       \E rs \in {undo_to(RecState, trail_len)} :
          /\ assignment' = rs.assignment
          /\ rec_trail' = rs.trail
          /\ last_propagated' = rs.last_propagated
          /\ op' = Called("undo_to", trail_len, TRUE)
    /\ UNCHANGED <<pc, watch_pos, watchlist, trailVars,
                   prop_queue, prop_lit, prop_watching, prop_i, opsFrame>>

\* propagate, lines 126-134: the queue of the literals made false since the
\* last pass
OpsPropagate ==
    /\ pc = "rec_ready"
    /\ prop_queue' = [i \in 1..(Len(rec_trail) - last_propagated) |->
                         LET e == rec_trail[last_propagated + i]
                         IN  IF e[2] THEN -e[1] ELSE e[1]]
    /\ last_propagated' = Len(rec_trail)
    /\ pc' = "prop_queue"
    /\ op' = None
    /\ UNCHANGED <<assignment, rec_trail, watch_pos, watchlist, trailVars,
                   prop_lit, prop_watching, prop_i, opsFrame>>

\* propagate, lines 136-143: "while queue", popleft and the snapshot of the
\* watchers, or "return True" when the queue is empty
OpsDequeue ==
    /\ pc = "prop_queue"
    /\ IF prop_queue = <<>>
       THEN /\ pc' = "rec_ready"
            /\ op' = Called("propagate", 0, TRUE)
            /\ PropLocalsGone
       ELSE /\ prop_lit' = Head(prop_queue)
            /\ prop_queue' = Tail(prop_queue)
            /\ prop_watching' = watchlist[Head(prop_queue)]
            /\ prop_i' = 1
            /\ pc' = IF prop_watching' = <<>> THEN "prop_queue" ELSE "prop_visit"
            /\ op' = None
    /\ UNCHANGED <<assignment, rec_trail, watch_pos, watchlist, last_propagated,
                   trailVars, opsFrame>>

\* propagate, lines 143-203: the body of the for loop for the next clause of
\* the snapshot
OpsVisit ==
    /\ pc = "prop_visit"
    /\ \E r \in {RecVisitClause(RecState, prop_lit, prop_watching[prop_i])} :
          /\ assignment' = r.rs.assignment
          /\ rec_trail' = r.rs.trail
          /\ watch_pos' = r.rs.watch_pos
          /\ watchlist' = r.rs.watchlist
          /\ IF r.status = "raise"
             THEN pc' = "error" /\ op' = None /\ PropLocalsGone
             ELSE IF r.status = "conflict"
             THEN /\ pc' = "rec_ready"
                  /\ op' = Called("propagate", 0, FALSE)
                  /\ PropLocalsGone
             ELSE /\ prop_queue' = prop_queue \o r.enq
                  /\ prop_i' = prop_i + 1
                  /\ UNCHANGED <<prop_lit, prop_watching>>
                  /\ pc' = IF prop_i = Len(prop_watching) THEN "prop_queue"
                           ELSE "prop_visit"
                  /\ op' = None
    /\ UNCHANGED <<last_propagated, trailVars, opsFrame>>

\* self._assign_lit(lit) on a DPLLFast
OpsFastAssign ==
    /\ pc = "ready"
    /\ \E lit \in Literals :
       \E r \in {_assign_lit(assign, trail, lit)} :
          /\ assign' = r.assign
          /\ trail' = r.trail
          /\ op' = Called("_assign_lit", lit, r.ok)
    /\ UNCHANGED <<pc, trail_start, recVars, prop_queue, prop_lit, prop_watching,
                   prop_i, loadVars, decisions, genVars, expVars, inputVars,
                   storeVars, watchVars, callVars, rng, clock, next_check, stack,
                   steps, ok, ret, outcome, run, first, start_watch, split_count,
                   solve_time>>

\* self._undo_to(mark) on a DPLLFast
OpsFastUndo ==
    /\ pc = "ready"
    /\ \E mark \in Marks :
       \E u \in {_undo_to(assign, trail, trail_start, mark)} :
          /\ assign' = u.assign
          /\ trail' = u.trail
          /\ trail_start' = u.trail_start
          /\ op' = Called("_undo_to", mark, TRUE)
    /\ UNCHANGED <<pc, recVars, prop_queue, prop_lit, prop_watching,
                   prop_i, loadVars, decisions, genVars, expVars, inputVars,
                   storeVars, watchVars, callVars, rng, clock, next_check, stack,
                   steps, ok, ret, outcome, run, first, start_watch, split_count,
                   solve_time>>

\* ok, new_ts = propagate_watched(...); self.trail_start = new_ts
OpsFastPropagate ==
    /\ pc = "ready"
    /\ \E r \in {propagate_watched(FastState, trail_start)} :
          /\ trail_start' = r.new_ts
          /\ assign' = r.ws.assign
          /\ trail' = r.ws.trail
          /\ wpos1' = r.ws.wpos1
          /\ wpos2' = r.ws.wpos2
          /\ head' = r.ws.head
          /\ op' = Called("propagate_watched", 0, r.ok)
    /\ UNCHANGED <<pc, recVars, prop_queue, prop_lit, prop_watching,
                   prop_i, loadVars, decisions, genVars, expVars, inputVars,
                   storeVars, callVars, rng, clock, next_check, stack,
                   steps, ok, ret, outcome, run, first, start_watch, split_count,
                   solve_time>>

NextOps ==
    \/ Construct
    \/ RecConstruct
    \/ OpsAssign
    \/ OpsUndo
    \/ OpsPropagate
    \/ OpsDequeue
    \/ OpsVisit
    \/ OpsFastAssign
    \/ OpsFastUndo
    \/ OpsFastPropagate

SpecOps == InitOps /\ [][NextOps]_vars


\* The clause the for loop of propagate is about to visit, the literal of it
\* that is watched besides the dequeued one, and whether it watches the
\* dequeued literal at all.
VisitedClause == prop_watching[prop_i]
VisitWatchesLit ==
    RecWatched(VisitedClause)[1] = prop_lit \/ RecWatched(VisitedClause)[2] = prop_lit
VisitOther ==
    IF RecWatched(VisitedClause)[1] = prop_lit THEN RecWatched(VisitedClause)[2]
    ELSE RecWatched(VisitedClause)[1]

\* C31: when the clause visited for the dequeued false literal has its other
\* watched literal true, the visit leaves the watched positions and the
\* watcher lists as they are.
C31_SatisfiedClauseUntouched ==
    [][(pc = "prop_visit" /\ VisitWatchesLit /\ IsTrue(assignment, VisitOther))
           => (watch_pos' = watch_pos /\ watchlist' = watchlist)]_vars


\* Every literal of clause ci is false.
AllFalse(ci) ==
    \A j \in DOMAIN clauses[ci + 1] : IsFalse(assignment, clauses[ci + 1][j])

\* The literal at position p of clause ci is not false and every literal at
\* another position of it is.
OnlyNonFalse(ci, p) ==
    /\ ~IsFalse(assignment, clauses[ci + 1][p])
    /\ \A j \in DOMAIN clauses[ci + 1] :
          j # p => IsFalse(assignment, clauses[ci + 1][j])

PropagateConflict == Called("propagate", 0, FALSE)

\* C32: propagate returns Conflict only from the visit of a clause whose
\* literals are all false, and the visit of such a clause returns it at once,
\* whatever is left in the snapshot and the queue; every literal propagate
\* assigns is the only non-false literal of the visited clause, whose other
\* literals are all false.
C32_ConflictAndUnitsAreForced ==
    /\ [][(op' = PropagateConflict /\ op # PropagateConflict) =>
              (pc = "prop_visit" /\ AllFalse(VisitedClause))]_vars
    /\ [][(pc = "prop_visit" /\ VisitWatchesLit /\ AllFalse(VisitedClause)) =>
              (op' = PropagateConflict /\ pc' = "rec_ready"
               /\ assignment' = assignment /\ rec_trail' = rec_trail)]_vars
    /\ [][(pc = "prop_visit" /\ rec_trail' # rec_trail) =>
              \E p \in DOMAIN clauses[VisitedClause + 1] :
                  LET L == clauses[VisitedClause + 1][p]
                  IN  /\ OnlyNonFalse(VisitedClause, p)
                      /\ rec_trail' = Append(rec_trail, <<Abs(L), L > 0>>)
                      /\ IsTrue(assignment', L)]_vars

\* propagate has returned Conflict after assigning a literal in the same pass,
\* and a clause has all its literals false.
C32_Witness ==
    /\ op = PropagateConflict
    /\ last_propagated < Len(rec_trail)
    /\ \E ci \in DOMAIN watch_pos : AllFalse(ci)


\* A solve call on a DPLLFast / on a DPLL has made its per-call reset and
\* nothing else yet (the first propagate of DPLL.solve finds an empty trail).
FastSolveStarts == FastBuilt /\ pc = "loop" /\ steps = 0 /\ run > 0
RecSolveStarts == RecBuilt /\ pc = "rec_call" /\ frames = <<>> /\ split_count = 0

\* C33: at the start of every solve call the watched positions and the
\* watcher lists equal the values built at construction.
C33_WatchesRestored ==
    /\ FastSolveStarts =>
          start_watch = <<init_wpos1(offsets), init_wpos2(offsets),
                          init_head(lits, offsets, num_vars)>>
    /\ RecSolveStarts =>
          /\ watch_pos = init_watch_pos(clauses)
          /\ watchlist = init_watchlist(clauses, num_vars)



(***************************************************************************)
(* The three outcomes of assign (DPLL.assign_literal, DPLLFast._assign_lit)*)
(***************************************************************************)
Sign(l) == IF l > 0 THEN 1 ELSE -1

\* the step is a call of the method with this literal
AssignedBy(name, l) ==
    op' = Called(name, l, TRUE) \/ op' = Called(name, l, FALSE)

\* the three outcomes, for the value val of var(l) before the call, the
\* result, and what the call did to the assignment and to the trail
ThreeOutcomes(val, l, result, set, pushed, untouched) ==
    /\ val = 0 => (result /\ set /\ pushed)
    /\ val = Sign(l) => (result /\ untouched)
    /\ val = -Sign(l) => (~result /\ untouched)

\* C34: assign(l) on an unassigned variable sets the value to sign(l), pushes
\* var(l) on the trail and reports Ok; on a variable already holding sign(l)
\* it reports Ok and pushes nothing; on a variable holding the opposite value
\* it reports Conflict and changes neither the assignment nor the trail.
C34_AssignHasThreeOutcomes ==
    [][\A l \in Literals :
          /\ AssignedBy("assign_literal", l) =>
                ThreeOutcomes(assignment[Abs(l)], l, Get(op').ok,
                    assignment' = [assignment EXCEPT ![Abs(l)] = Sign(l)],
                    rec_trail' = Append(rec_trail, <<Abs(l), l > 0>>),
                    assignment' = assignment /\ rec_trail' = rec_trail)
          /\ AssignedBy("_assign_lit", l) =>
                ThreeOutcomes(assign[Abs(l)], l, Get(op').ok,
                    assign' = [assign EXCEPT ![Abs(l)] = Sign(l)],
                    trail' = Append(trail, Abs(l)),
                    assign' = assign /\ trail' = trail)]_vars

\* an assign has reported Conflict on either solver, on a trail that already
\* holds the variable
C34_Witness ==
    \E l \in Literals :
       \/ /\ op = Called("assign_literal", l, FALSE)
          /\ assignment[Abs(l)] = -Sign(l)
          /\ \E i \in DOMAIN rec_trail : rec_trail[i] = <<Abs(l), l < 0>>
       \/ /\ op = Called("_assign_lit", l, FALSE)
          /\ assign[Abs(l)] = -Sign(l)
          /\ \E i \in DOMAIN trail : trail[i] = Abs(l)



(***************************************************************************)
(* The effect of undo_to (DPLL.undo_to, DPLLFast._undo_to)                 *)
(***************************************************************************)
Min(a, b) == IF a < b THEN a ELSE b

\* the variables of the trail entries after the first m, for a trail of
\* (var, value) pairs and for a trail of variables
RecPopped(m) == {rec_trail[i][1] : i \in (m + 1)..Len(rec_trail)}
FastPopped(m) == {trail[i] : i \in (m + 1)..Len(trail)}

\* C35: undo_to(mark) with mark <= len(trail) leaves the trail equal to its
\* first mark entries, sets exactly the popped variables to Unassigned, leaves
\* every other variable's value unchanged, and leaves the propagation cursor
\* at min(old cursor, mark); with mark >= len(trail) it changes nothing.
C35_UndoEffect ==
    [][\A m \in Marks :
          /\ op' = Called("undo_to", m, TRUE) =>
                /\ m <= Len(rec_trail) =>
                      /\ rec_trail' = SubSeq(rec_trail, 1, m)
                      /\ \A v \in DOMAIN assignment :
                            assignment'[v] = IF v \in RecPopped(m) THEN 0
                                             ELSE assignment[v]
                      /\ last_propagated' = Min(last_propagated, m)
                /\ m >= Len(rec_trail) =>
                      UNCHANGED <<assignment, rec_trail, last_propagated,
                                  watch_pos, watchlist>>
          /\ op' = Called("_undo_to", m, TRUE) =>
                /\ m <= Len(trail) =>
                      /\ trail' = SubSeq(trail, 1, m)
                      /\ \A v \in DOMAIN assign :
                            assign'[v] = IF v \in FastPopped(m) THEN 0
                                         ELSE assign[v]
                      /\ trail_start' = Min(trail_start, m)
                /\ m >= Len(trail) =>
                      UNCHANGED <<assign, trail, trail_start, wpos1, wpos2,
                                  head>>]_vars

\* an undo_to has cut a trail that propagation had extended: the trail ends
\* at the mark, the cursor was pulled back to it, a watch was moved before
\* and a variable is unassigned again
C35_Witness ==
    \E m \in Marks :
       /\ m >= 1
       /\ \/ /\ op = Called("undo_to", m, TRUE)
             /\ Len(rec_trail) = m /\ last_propagated = m
             /\ watch_pos # init_watch_pos(clauses)
             /\ \E v \in 1..num_vars : assignment[v] = 0
          \/ /\ op = Called("_undo_to", m, TRUE)
             /\ Len(trail) = m /\ trail_start = m
             /\ wpos1 # init_wpos1(offsets)
             /\ \E v \in 1..num_vars : assign[v] = 0



(***************************************************************************)
(* The trail discipline during a solve, for both solvers                   *)
(***************************************************************************)
\* the variables on the two trails
FastOnTrail == {trail[i] : i \in DOMAIN trail}
RecOnTrail == {rec_trail[i][1] : i \in DOMAIN rec_trail}

\* The number of trail entries, counted from the bottom, that the step of
\* DPLLFast.solve leaves on the trail: none when a solve call starts, those
\* below the lowest mark the backtrack loop undoes to when it runs (the mark
\* of the topmost unflipped frame, of the bottom frame when all are
\* flipped), all of them otherwise.
FastKept ==
    IF run' # run THEN 0
    ELSE IF AtConflict /\ stack # <<>>
    THEN stack[Max(TopUnflipped(stack), 1)].mark
    ELSE Len(trail)

\* C36: in every reachable state of a solve a variable is assigned if and
\* only if it occurs on the trail, no variable occurs on the trail twice, and
\* 0 <= propagation cursor <= len(trail) (state part).
TrailDiscipline ==
    /\ FastBuilt =>
          /\ \A v \in 1..num_vars : assign[v] # 0 <=> v \in FastOnTrail
          /\ \A i, j \in DOMAIN trail : trail[i] = trail[j] => i = j
          /\ 0 <= trail_start /\ trail_start <= Len(trail)
    /\ RecBuilt =>
          /\ \A v \in 1..num_vars : assignment[v] # 0 <=> v \in RecOnTrail
          /\ \A i, j \in DOMAIN rec_trail :
                rec_trail[i][1] = rec_trail[j][1] => i = j
          /\ 0 <= last_propagated /\ last_propagated <= Len(rec_trail)
          \* the value is the one the entry was pushed with
          /\ \A i \in DOMAIN rec_trail :
                assignment[rec_trail[i][1]] = IF rec_trail[i][2] THEN 1 ELSE -1

\* C36: the value of a variable does not change while it stays on the trail,
\* only an undo_to that pops it clears it; together with the state part.
C36_TrailDiscipline ==
    /\ []TrailDiscipline
    /\ [][FastBuilt =>
             \A i \in 1..FastKept :
                /\ i <= Len(trail) /\ i <= Len(trail')
                /\ trail'[i] = trail[i]
                /\ assign'[trail[i]] = assign[trail[i]]]_vars

\* a solve has backtracked and propagated: a frame is flipped, the trail
\* holds several variables and the cursor has reached its end
C36_Witness ==
    \/ /\ FastBuilt /\ pc = "post" /\ ok
       /\ \E k \in DOMAIN stack : stack[k].flipped
       /\ Len(trail) >= 2 /\ trail_start = Len(trail)
    \/ /\ RecBuilt /\ pc = "rec_call"
       /\ \E k \in DOMAIN frames : frames[k].stage = 2
       /\ Len(rec_trail) >= 2 /\ last_propagated = Len(rec_trail)



(***************************************************************************)
(* The decision stack of DPLLFast.solve against the trail                  *)
(***************************************************************************)
\* the top of the main loop of solve: "while True:" is about to run its body
AtLoopBoundary == FastBuilt /\ pc = "loop"

\* frame (l, m, flipped): position m of the trail (counted from 0) holds
\* var(l), with the value sign(l), or the opposite value once flipped
FrameOnTrail(f) ==
    /\ f.mark < Len(trail)
    /\ trail[f.mark + 1] = Abs(f.branch_lit)
    /\ assign[Abs(f.branch_lit)] =
          IF f.flipped THEN -Sign(f.branch_lit) ELSE Sign(f.branch_lit)

\* C37: at every main-loop iteration boundary of DPLLFast.solve the trail
\* marks of the decision stack strictly increase from bottom to top, every
\* frame (l, m, flipped) has m < len(trail) with trail[m] = var(l) holding
\* sign(l) when not flipped and the opposite value when flipped, and the
\* stack depth never exceeds num_vars.
C37_StackConsistentWithTrail ==
    AtLoopBoundary =>
       /\ \A i, j \in DOMAIN stack : i < j => stack[i].mark < stack[j].mark
       /\ \A k \in DOMAIN stack : FrameOnTrail(stack[k])
       /\ Len(stack) <= num_vars

\* an iteration starts with a flipped frame below an unflipped one and with
\* a propagated variable between their trail positions
C37_Witness ==
    /\ AtLoopBoundary
    /\ \E i, j \in DOMAIN stack :
          /\ i < j
          /\ stack[i].flipped /\ ~stack[j].flipped
          /\ stack[j].mark > stack[i].mark + 1



(***************************************************************************)
(* The assigns of DPLLFast.solve never report a conflict                   *)
(***************************************************************************)
\* the literals the heuristic of the mode can return in this state
Returned_by(mode) ==
    {Get(c.lit) : c \in {d \in _choose_branch_lit(mode, assign, rng) : d.lit # None}}

\* self._assign_lit(l) succeeds by giving the unassigned var(l) the value
AssignSucceeds(a, tr, l) ==
    /\ a[Abs(l)] = 0
    /\ _assign_lit(a, tr, l) =
          [ok |-> TRUE, assign |-> [a EXCEPT ![Abs(l)] = Sign(l)],
           trail |-> Append(tr, Abs(l))]

\* the stack after the backtrack loop stopped at frame k: the frames below
\* it and the frame itself, flipped
StoppedAt(k) ==
    Append(SubSeq(stack, 1, k - 1), [stack[k] EXCEPT !.flipped = TRUE])

\* C38: every literal a heuristic returns (static, random, 2clause) has an
\* unassigned variable, so in DPLLFast.solve the assign of a new decision
\* literal always succeeds, and the assign of the negated branch literal
\* after undoing to the frame's mark always succeeds: the backtrack loop
\* stops at the first unflipped frame it pops.
C38_AssignsInSolveSucceed ==
    /\ Constructed =>
          /\ \A m \in Modes : \A l \in Returned_by(m) : assign[Abs(l)] = 0
          /\ \A l \in {_choose_branch_lit_static(assign),
                       _choose_branch_lit_2clause(assign)} :
                l # None => assign[Abs(Get(l))] = 0
    /\ (FastBuilt /\ pc = "post" /\ ok /\ ~AllAssigned(assign)) =>
          \A l \in Returned_by(branch_mode) : AssignSucceeds(assign, trail, l)
    /\ (FastBuilt /\ AtConflict /\ TopUnflipped(stack) # 0) =>
          LET k == TopUnflipped(stack)
              u == _undo_to(assign, trail, trail_start, stack[k].mark)
              b == BacktrackLoop(stack, assign, trail, trail_start)
          IN  /\ AssignSucceeds(u.assign, u.trail, -stack[k].branch_lit)
              /\ b.found
              /\ b.stack = StoppedAt(k)

\* a conflict below two decisions: the top frame is flipped and is dropped,
\* the loop stops at the unflipped frame under it
C38_Witness ==
    /\ FastBuilt /\ AtConflict
    /\ Len(decisions) >= 2
    /\ TopUnflipped(stack) # 0
    /\ TopUnflipped(stack) < Len(stack)

====
